---- MODULE Spec2Model ----
(***************************************************************************)
(* GoogleAdsOrchestrator: the four-stage workflow engine, its history      *)
(* store and the agent calls it awaits; the continuous monitoring loop;    *)
(* the duration and export functions.                                      *)
(*                                                                         *)
(* JavaScript runs one task at a time and an async function gives up the   *)
(* thread only at an await.  Every action below is therefore one run of    *)
(* code from a resumption (a call of executeWorkflow, or the settling of   *)
(* the agent promise an invocation awaits) to the next await or to the end *)
(* of the invocation.  Several invocations of executeWorkflow on the same  *)
(* orchestrator may be suspended at the same time: the class is exported   *)
(* and executeWorkflow has no guard against it.                            *)
(*                                                                         *)
(* Objects are held by reference: heap is the sequence of WorkflowRecord   *)
(* objects ever created, currentWorkflow and workflowHistory hold indexes  *)
(* into it (0 is null).  A JavaScript object with optional keys is a       *)
(* function whose DOMAIN is the set of keys present.                       *)
(***************************************************************************)
EXTENDS Integers, Sequences, FiniteSets, TLC

\* ---------------------------------------------------------------- bounds
\* Number of executeWorkflow invocations made on the one orchestrator.
MaxInvocations == 2
\* Size of the largest exact-match bucket the keyword agent returns.
MaxBucket == 12

\* Number of times the monitoring timer fires.
MaxCycles == 2
\* Longest elapsed time, in whole seconds, given to calculateDuration.
MaxElapsedSeconds == 125
\* Number of times the clock moves while the history is queried.
MaxTicks == 1
\* Number of timers PerformanceMonitorAgent.startContinuousMonitoring creates.
MaxTimers == 3
\* Number of times the agent's timers call monitorCampaign.
MaxFirings == 2
\* Number of entries added to a bounded log that starts empty, or one
\* short of its cap.
MaxRecords == 3
\* Largest current bid given to the bid optimizer, in steps of 25 pence.
MaxBidSteps == 10
\* Number of refreshData runs of the dashboard.
MaxRefreshes == 3
\* Number of fetches the auto-refresh timer starts.
MaxAutoFetches == 2

Invocations == 1..MaxInvocations
\* The callers of the orchestrator.  Each awaits its executeWorkflow call
\* before it makes another (as main does), so as many invocations overlap
\* as there are callers.
Callers == {"main", "second caller"}
\* Bucket sizes the keyword agent may return: below both slice limits,
\* between them, and above both.  The agent computes the bucket from the
\* fixed seed list without any random input, so every call of one run
\* returns the same bucket; which one is open.
BucketSizes == {3, 7, MaxBucket}

\* ------------------------------------------------------ program constants
\* keywordResult.keywords.exact.slice(0, 10)
AdCopyKeywordLimit == 10
\* keywords.slice(0, 5)
BidKeywordLimit == 5
\* the placeholder campaign id 'demo_campaign' (campaign ids are tokens;
\* the ids setupCampaign makes are the positive ones)
demo_campaign == 0

undefined == "undefined"
EmptyObject == [k \in {} |-> undefined]

\* ------------------------------------------------------ JavaScript strings
Digits == {ToString(d) : d \in 0..9}

\* Not-a-Number, the result of parseInt on a string without leading digits
\* and of 0 / 0 (every number the code computes is >= 0).
NaN == -1

\* `${n}` for an integer n >= 0: its decimal digits
String(n) == IF n = NaN THEN "NaN" ELSE ToString(n)

\* s[j - 1], the j-th character of s
CharAt(s, j) == SubSeq(s, j, j)

RECURSIVE LeadingDigits(_)
LeadingDigits(s) ==
    IF s = "" \/ Head(s) \notin Digits THEN ""
    ELSE Head(s) \o LeadingDigits(Tail(s))

RECURSIVE DecimalValue(_)
DecimalValue(ds) ==
    IF ds = "" THEN 0
    ELSE 10 * DecimalValue(SubSeq(ds, 1, Len(ds) - 1))
         + (CHOOSE d \in 0..9 : ToString(d) = CharAt(ds, Len(ds)))

\* parseInt(s): the value of the leading digits, NaN if there are none
parseInt(s) ==
    IF LeadingDigits(s) = "" THEN NaN ELSE DecimalValue(LeadingDigits(s))

\* a + b and a * b on numbers that may be NaN
Plus(a, b) == IF a = NaN \/ b = NaN THEN NaN ELSE a + b

Times(a, b) == IF a = NaN \/ b = NaN THEN NaN ELSE a * b

\* s.split(sep), for a separator of one character
RECURSIVE Split(_, _)
Split(s, sep) ==
    IF \A j \in 1..Len(s) : CharAt(s, j) # sep THEN <<s>>
    ELSE LET k == CHOOSE j \in 1..Len(s) :
                      CharAt(s, j) = sep /\ \A m \in 1..(j - 1) : CharAt(s, m) # sep
         IN  <<SubSeq(s, 1, k - 1)>> \o Split(SubSeq(s, k + 1, Len(s)), sep)

\* s.includes(ch), for one character
Includes(s, ch) == \E j \in 1..Len(s) : CharAt(s, j) = ch

\* !v for a value that is a string or undefined
Falsy(v) == v = undefined \/ v = ""

\* the sentinel 'N/A'
NotAvailable == "N/A"

\* v || 'N/A'
OrNotAvailable(v) == IF Falsy(v) THEN NotAvailable ELSE v

\* ------------------------------------------------------------- the clock
\* new Date(ms).toISOString(): the instant written out
toISOString(ms) == String(ms)

\* new Date(iso), as the number that end - start subtracts
DateOf(iso) == parseInt(iso)

\* Faulty variant: an hours unit is used from 60 minutes on.
calculateDuration_withHours(startTime, endTime) ==
    LET durationMs == DateOf(endTime) - DateOf(startTime)
        seconds == durationMs \div 1000
        minutes == seconds \div 60
        hours == minutes \div 60
    IN  IF hours > 0
        THEN String(hours) \o "h " \o String(minutes % 60) \o "m "
             \o String(seconds % 60) \o "s"
        ELSE IF minutes > 0
        THEN String(minutes) \o "m " \o String(seconds % 60) \o "s"
        ELSE String(seconds) \o "s"

\* calculateDuration(startTime, endTime)
calculateDuration(startTime, endTime) ==
    LET durationMs == DateOf(endTime) - DateOf(startTime)
        seconds == durationMs \div 1000
        minutes == seconds \div 60
    IN  IF minutes > 0
        THEN String(minutes) \o "m " \o String(seconds % 60) \o "s"
        ELSE String(seconds) \o "s"

\* Faulty variant: a minutes part is added as it is, not times 60.
PartSeconds_minutesAsSeconds(part) ==
    IF Includes(part, "m") THEN parseInt(part)
    ELSE IF Includes(part, "s") THEN parseInt(part)
    ELSE 0

\* parseDurationToSeconds, the body of parts.forEach: what one part adds
PartSeconds(part) ==
    IF Includes(part, "m") THEN Times(parseInt(part), 60)
    ELSE IF Includes(part, "s") THEN parseInt(part)
    ELSE 0

RECURSIVE SumParts(_)
SumParts(parts) ==
    IF parts = <<>> THEN 0
    ELSE Plus(SumParts(SubSeq(parts, 1, Len(parts) - 1)), PartSeconds(parts[Len(parts)]))

\* parseDurationToSeconds(duration)
parseDurationToSeconds(duration) ==
    IF Falsy(duration) THEN 0 ELSE SumParts(Split(duration, " "))

\* calculateAverageDuration, its last lines: the average written out
FormatAverage(avgSeconds) ==
    LET minutes == IF avgSeconds = NaN THEN NaN ELSE avgSeconds \div 60
    IN  IF minutes > 0
        THEN String(minutes) \o "m " \o String(avgSeconds % 60) \o "s"
        ELSE String(avgSeconds) \o "s"

\* workflowHistory.filter(w => w.status === 'completed' && w.duration)
CompletedWithDuration(workflows) ==
    SelectSeq(workflows, LAMBDA w : w.status = "completed" /\ ~Falsy(w.duration))

RECURSIVE TotalSeconds(_)
TotalSeconds(workflows) ==
    IF workflows = <<>> THEN 0
    ELSE Plus(TotalSeconds(SubSeq(workflows, 1, Len(workflows) - 1)),
              parseDurationToSeconds(workflows[Len(workflows)].duration))

\* Faulty variant: no sentinel, the total 0 is divided by the length 0.
AverageDuration_noSentinel(workflows) ==
    LET completedWorkflows == CompletedWithDuration(workflows)
    IN  IF Len(completedWorkflows) = 0 THEN FormatAverage(NaN)
        ELSE LET totalSeconds == TotalSeconds(completedWorkflows)
             IN  FormatAverage(IF totalSeconds = NaN THEN NaN
                               ELSE totalSeconds \div Len(completedWorkflows))

\* calculateAverageDuration, on the records of the history
AverageDuration(workflows) ==
    LET completedWorkflows == CompletedWithDuration(workflows)
    IN  IF Len(completedWorkflows) = 0 THEN NotAvailable
        ELSE LET totalSeconds == TotalSeconds(completedWorkflows)
             IN  FormatAverage(IF totalSeconds = NaN THEN NaN
                               ELSE totalSeconds \div Len(completedWorkflows))

VARIABLES
    status,           \* this.status
    currentWorkflow,  \* this.currentWorkflow: 0 (null) or a heap index
    workflowHistory,  \* this.workflowHistory: sequence of heap indexes
    heap,             \* the WorkflowRecord objects created so far
    pc,               \* per invocation: where it is suspended, or how it ended
    frame,            \* per invocation: the locals of the stage it is in
    calls,            \* agent calls in flight (promises not yet settled)
    bucketSize,       \* how many exact-match keywords the keyword agent finds
    settled,          \* per invocation: what its promise settled with
    timer,            \* the setInterval timer of startContinuousMonitoring
    cycle,            \* per firing of the timer: where its callback is, and its locals
    cycleCalls,       \* agent calls in flight that monitoring cycles await
    process,          \* the Node.js process: "running" or "exited"
    timing,           \* a call of the duration functions: arguments and results
    returned,         \* what the last query handed its caller
    now,              \* Date.now(): the clock, in milliseconds since the epoch
    monitorAgent,     \* PerformanceMonitorAgent: monitoringActive and its own timers
    logs,             \* the bounded logs of the agents and of the dashboard
    bidding,          \* a call of BidOptimizerAgent.adjustBids: input and adjustment
    dashboard         \* GoogleAdsDashboard: isLoading, its refresh runs and fetches

\* The workflow engine and its history store.
workflowVars == <<status, currentWorkflow, workflowHistory, heap, pc, frame, calls,
                  bucketSize, settled>>

\* The continuous monitoring loop and the process it runs in.
monitoringVars == <<timer, cycle, cycleCalls, process>>

\* What callers of the pure functions and of the queries hold.
callerVars == <<timing, returned>>

\* The agents and the dashboard, taken by themselves.
agentVars == <<monitorAgent, logs, bidding, dashboard>>

vars == <<status, currentWorkflow, workflowHistory, heap, pc, frame, calls, bucketSize, settled,
          timer, cycle, cycleCalls, process, timing, returned, now,
          monitorAgent, logs, bidding, dashboard>>

\* new Date().toISOString()
Timestamp == toISOString(now)

\* `workflow_${Date.now()}`
WorkflowId == "workflow_" \o String(now)

\* ------------------------------------------------------ JavaScript helpers
Min(a, b) == IF a < b THEN a ELSE b

\* Array.prototype.slice(start, end) for 0 <= start <= end
Slice(s, start, end) == SubSeq(s, start + 1, Min(end, Len(s)))

Has(obj, key) == key \in DOMAIN obj

\* obj with obj[key] = value
Put(obj, key, value) == (key :> value) @@ obj

\* ------------------------------------------------------------ the agents
\* The stage (1..4) whose executor makes the call an invocation awaits.
StageOf(op) ==
    CASE op = "setupCampaign" -> 1
      [] op = "fetchAndOptimizeKeywords" -> 2
      [] op = "generateAdCopy" -> 2
      [] op = "monitorCampaign" -> 3
      [] op = "adjustBids" -> 3
      [] op = "generateReport" -> 4

AgentOps == {"setupCampaign", "fetchAndOptimizeKeywords", "generateAdCopy",
             "monitorCampaign", "adjustBids", "generateReport"}

\* Every agent catches, logs and re-throws its own error; the message
\* names what failed.
ErrorMessage(op) == "Error in " \o op

\* simulateGoogleAdsAPI: the campaign object, with a fresh id
CampaignResponse(i) == [id |-> i, status |-> "ENABLED"]

\* organizeKeywordStructure: the exact-match bucket, K keyword entries
ExactBucket(K) == [j \in 1..K |-> j]

\* fetchAndOptimizeKeywords' result
KeywordResult(K) == [keywords |-> [exact |-> ExactBucket(K)], summary |-> K]

\* generateAdCopy's result
AdCopyResult == [summary |-> "ads"]

\* monitorCampaign's result
PerformanceResult(campaignId) ==
    [campaignId |-> campaignId, metrics |-> "metrics", status |-> "good"]

\* adjustBids' result
BidOptimizationResult(keywords) ==
    [summary |-> [totalAdjustments |-> Len(keywords)]]

\* generateReport's result
ReportResult(campaignData, performanceData) ==
    [id |-> "report", rawData |-> [campaignData |-> campaignData,
                                   performanceData |-> performanceData]]

\* ------------------------------------------------------- workflow records
\* this.currentWorkflow = { id, type, startTime, stages: [], results: {} }
NewWorkflow ==
    [id |-> WorkflowId,
     type |-> "full_automation", startTime |-> Timestamp, stages |-> <<>>,
     results |-> EmptyObject, status |-> undefined, error |-> undefined,
     endTime |-> undefined, duration |-> undefined]

CompletedOutcome(k) == [stage |-> k, status |-> "completed", error |-> undefined]

FailedOutcome(k, message) == [stage |-> k, status |-> "failed", error |-> message]

\* this.currentWorkflow.stages.push(outcome)
PushStage(h, cw, outcome) ==
    [h EXCEPT ![cw].stages = Append(@, outcome)]

\* this.currentWorkflow.results[key] = value
SetResult(h, cw, key, value) ==
    [h EXCEPT ![cw].results = Put(@, key, value)]

\* An agent call leaves the caller suspended until its promise settles.
Call(i, op, args) == [inv |-> i, op |-> op, args |-> args]

PendingCall(i, op) == {c \in calls : c.inv = i /\ c.op = op}

\* The invocations that have started and not settled.
InProgress == {i \in Invocations : pc[i] \notin {"idle", "resolved", "rejected"}}

\* ------------------------------------------------------- stage executors
\* Stage 1, after setupCampaign returned
Stage1_Completed(h, cw, campaignResult) ==
    PushStage(SetResult(h, cw, "campaignSetup", campaignResult), cw, CompletedOutcome(1))

\* Faulty variant: the fallback is a placeholder campaign, not {}.
Stage2_CampaignData_placeholder(h, cw) ==
    IF Has(h[cw].results, "campaignSetup") THEN h[cw].results.campaignSetup
    ELSE [id |-> demo_campaign]

\* Stage 2: this.currentWorkflow.results.campaignSetup || {}
Stage2_CampaignData(h, cw) ==
    IF Has(h[cw].results, "campaignSetup") THEN h[cw].results.campaignSetup
    ELSE EmptyObject

\* Faulty variant: slice(1, 10), which drops the first keyword.
Stage2_AdCopyKeywords_fromOne(keywordResult) ==
    Slice(keywordResult.keywords.exact, 1, AdCopyKeywordLimit)

\* Stage 2: keywordResult.keywords.exact.slice(0, 10)
Stage2_AdCopyKeywords(keywordResult) ==
    Slice(keywordResult.keywords.exact, 0, AdCopyKeywordLimit)

\* Stage 2, after generateAdCopy returned
Stage2_Completed(h, cw, keywordResult, adCopyResult) ==
    PushStage(SetResult(SetResult(h, cw, "keywordOptimization", keywordResult),
                        cw, "adCopyGeneration", adCopyResult),
              cw, CompletedOutcome(2))

\* Stage 3: this.currentWorkflow.results.campaignSetup?.id || 'demo_campaign'
Stage3_CampaignId(h, cw) ==
    IF Has(h[cw].results, "campaignSetup") /\ Has(h[cw].results.campaignSetup, "id")
    THEN h[cw].results.campaignSetup.id
    ELSE demo_campaign

\* Stage 3: this.currentWorkflow.results.keywordOptimization?.keywords?.exact || []
Stage3_Keywords(h, cw) ==
    IF Has(h[cw].results, "keywordOptimization")
    THEN h[cw].results.keywordOptimization.keywords.exact
    ELSE <<>>

\* Faulty variant: the ad-copy limit is used for the bid slice.
Stage3_BidKeywords_adCopyLimit(h, cw) ==
    Slice(Stage3_Keywords(h, cw), 0, AdCopyKeywordLimit)

\* Stage 3: keywords.slice(0, 5)
Stage3_BidKeywords(h, cw) == Slice(Stage3_Keywords(h, cw), 0, BidKeywordLimit)

\* Stage 3, after adjustBids returned
Stage3_Completed(h, cw, performanceResult, bidOptimizationResult) ==
    PushStage(SetResult(SetResult(h, cw, "performanceMonitoring", performanceResult),
                        cw, "bidOptimization", bidOptimizationResult),
              cw, CompletedOutcome(3))

\* Stage 4: this.currentWorkflow.results.campaignSetup || {}
Stage4_CampaignData(h, cw) ==
    IF Has(h[cw].results, "campaignSetup") THEN h[cw].results.campaignSetup
    ELSE EmptyObject

\* Stage 4: this.currentWorkflow.results.performanceMonitoring || {}
Stage4_PerformanceData(h, cw) ==
    IF Has(h[cw].results, "performanceMonitoring") THEN h[cw].results.performanceMonitoring
    ELSE EmptyObject

\* Stage 4, after generateReport returned
Stage4_Completed(h, cw, reportResult) ==
    PushStage(SetResult(h, cw, "reporting", reportResult), cw, CompletedOutcome(4))

\* The catch block of stage k: push the failed outcome (and re-throw)
StageFailed(h, cw, k, message) == PushStage(h, cw, FailedOutcome(k, message))

\* executeWorkflow, after stage 4: endTime, duration, status on currentWorkflow
WorkflowCompleted(h, cw) ==
    [h EXCEPT ![cw].endTime = Timestamp,
              ![cw].duration = calculateDuration(h[cw].startTime, Timestamp),
              ![cw].status = "completed"]

\* Faulty variant: the catch block does not store the message.
WorkflowFailed_noMessage(h, cw, message) ==
    IF cw = 0 THEN h
    ELSE [h EXCEPT ![cw].status = "failed",
                   ![cw].endTime = Timestamp]

\* executeWorkflow's catch block: if (this.currentWorkflow) { status, error, endTime }
WorkflowFailed(h, cw, message) ==
    IF cw = 0 THEN h
    ELSE [h EXCEPT ![cw].status = "failed",
                   ![cw].error = message,
                   ![cw].endTime = Timestamp]

\* What a settled invocation hands its caller.
Resolved(cw, record) == [kind |-> "resolved", ref |-> cw, record |-> record, error |-> undefined]

Rejected(message) == [kind |-> "rejected", ref |-> 0, record |-> NewWorkflow, error |-> message]

Pending == [kind |-> "pending", ref |-> 0, record |-> NewWorkflow, error |-> undefined]

\* ------------------------------------------------------------------ Init
Cycles == 1..MaxCycles

\* A firing of the timer that has not happened, or whose callback is over:
\* of its locals only the monitor result it got, if any, is kept on record.
CycleOver(at, performanceResult) ==
    [pc |-> at, latestWorkflow |-> 0, campaignId |-> 0, performanceResult |-> performanceResult]

CycleAt(at) == CycleOver(at, EmptyObject)

\* startContinuousMonitoring has not been called.
MonitoringOff ==
    /\ timer = "none"
    /\ cycle = [n \in Cycles |-> CycleAt("idle")]
    /\ cycleCalls = {}
    /\ process = "running"

\* No call of calculateDuration is being followed.
NoTiming ==
    [pc |-> "none", elapsed |-> 0, startTime |-> undefined, endTime |-> undefined,
     duration |-> undefined, seconds |-> 0, average |-> undefined]

\* No query has been made.
Nothing == [query |-> "none", value |-> undefined]

CallersIdle ==
    /\ timing = NoTiming
    /\ returned = Nothing

\* PerformanceMonitorAgent as its constructor leaves it: monitoringActive
\* false, no timer; handle is what startContinuousMonitoring returned last
\* (0: nothing yet, or undefined), monitored counts the monitorCampaign calls
\* its timers made.
AgentTimers == 1..MaxTimers

MonitorAgentConstructed ==
    [monitoringActive |-> FALSE,
     timers |-> [t \in AgentTimers |-> "none"],
     handle |-> 0,
     monitored |-> 0]

\* The four bounded logs, empty.  An entry is modelled by its ordinal: the
\* n-th entry added to a log is n, and recorded counts the entries added to
\* each log so far.
EmptyLogs ==
    [performanceHistory |-> <<>>, bidHistory |-> <<>>, reports |-> <<>>,
     activityLog |-> <<>>,
     recorded |-> [performanceHistory |-> 0, bidHistory |-> 0, reports |-> 0,
                   activityLog |-> 0]]

\* No call of adjustBids has returned: the adjustments it returns, and the
\* hour and weekday at which it ran.
NoBidding == [pc |-> "none", adjustments |-> <<>>, hour |-> 0, day |-> 0]

\* The dashboard after its constructor: init() has started the initial load
\* and the auto-refresh timer.  runs is the state of each refreshData call,
\* initialLoad that of loadInitialData, autoFetches the number of fetches the
\* auto-refresh timer has in flight and autoStarted the number it has
\* started, and lastTick what the last firing of that timer did.
Refreshes == 1..MaxRefreshes

DashboardConstructed ==
    [isLoading |-> FALSE,
     runs |-> [r \in Refreshes |-> "idle"],
     initialLoad |-> "fetching",
     autoFetches |-> 0,
     autoStarted |-> 0,
     lastTick |-> "none"]

AgentsIdle ==
    /\ monitorAgent = MonitorAgentConstructed
    /\ logs = EmptyLogs
    /\ bidding = NoBidding
    /\ dashboard = DashboardConstructed

\* The orchestrator as its constructor leaves it.
Constructed ==
    /\ status = "idle"
    /\ currentWorkflow = 0
    /\ workflowHistory = <<>>
    /\ heap = <<>>
    /\ pc = [i \in Invocations |-> "idle"]
    /\ frame = [i \in Invocations |-> EmptyObject]
    /\ calls = {}
    /\ bucketSize \in BucketSizes
    /\ settled = [i \in Invocations |-> Pending]

\* The workflow engine, its invocations interleaved in every way.  The
\* clock is read at one instant throughout.
Init ==
    /\ now = 0
    /\ Constructed
    /\ MonitoringOff
    /\ AgentsIdle
    /\ CallersIdle

\* --------------------------------------------------------------- actions
\* Faulty variant: stage 1 is not awaited, so stage 2 starts at once.
executeWorkflow_noAwait(i) ==
    /\ pc[i] = "idle"
    /\ \A j \in Invocations : j < i => pc[j] # "idle"
    /\ Cardinality(InProgress) < Cardinality(Callers)
    /\ status' = "working"
    /\ heap' = Append(heap, NewWorkflow)
    /\ currentWorkflow' = Len(heap) + 1
    /\ calls' = calls \cup {Call(i, "setupCampaign", [budget |-> 20]),
                            Call(i, "fetchAndOptimizeKeywords", EmptyObject)}
    /\ pc' = [pc EXCEPT ![i] = "setupCampaign"]
    /\ UNCHANGED <<workflowHistory, frame, bucketSize, settled>>
    /\ UNCHANGED <<monitoringVars, callerVars, now, agentVars>>

\* executeWorkflow is called: runs to the await of setupCampaign in stage 1.
\* Invocations are numbered in the order they are made.
executeWorkflow(i) ==
    /\ pc[i] = "idle"
    /\ \A j \in Invocations : j < i => pc[j] # "idle"
    /\ Cardinality(InProgress) < Cardinality(Callers)
    /\ status' = "working"
    /\ heap' = Append(heap, NewWorkflow)
    /\ currentWorkflow' = Len(heap) + 1
    /\ calls' = calls \cup {Call(i, "setupCampaign", [budget |-> 20])}
    /\ pc' = [pc EXCEPT ![i] = "setupCampaign"]
    /\ UNCHANGED <<workflowHistory, frame, bucketSize, settled>>
    /\ UNCHANGED <<monitoringVars, callerVars, now, agentVars>>

\* Faulty variant: stage 1 records its outcome in the record its own
\* invocation created.
setupCampaign_returns_ownRecord(i) ==
    \E c \in PendingCall(i, "setupCampaign") :
        /\ pc[i] = "setupCampaign"
        /\ heap' = Stage1_Completed(heap, i, CampaignResponse(i))
        /\ calls' = (calls \ {c}) \cup {Call(i, "fetchAndOptimizeKeywords", EmptyObject)}
        /\ pc' = [pc EXCEPT ![i] = "fetchAndOptimizeKeywords"]
        /\ UNCHANGED <<status, currentWorkflow, workflowHistory, frame, bucketSize, settled>>
        /\ UNCHANGED <<monitoringVars, callerVars, now, agentVars>>

\* setupCampaign returned: stage 1 records its outcome, stage 2 starts and
\* runs to the await of fetchAndOptimizeKeywords.
setupCampaign_returns(i) ==
    \E c \in PendingCall(i, "setupCampaign") :
        /\ pc[i] = "setupCampaign"
        /\ heap' = Stage1_Completed(heap, currentWorkflow, CampaignResponse(i))
        /\ calls' = (calls \ {c}) \cup {Call(i, "fetchAndOptimizeKeywords", EmptyObject)}
        /\ pc' = [pc EXCEPT ![i] = "fetchAndOptimizeKeywords"]
        /\ UNCHANGED <<status, currentWorkflow, workflowHistory, frame, bucketSize, settled>>
        /\ UNCHANGED <<monitoringVars, callerVars, now, agentVars>>

\* Faulty variant: stage 2 stores the keyword structure in the results as
\* soon as the keyword agent has returned it.
fetchAndOptimizeKeywords_returns_storesResult(i) ==
    \E c \in PendingCall(i, "fetchAndOptimizeKeywords") :
        LET keywordResult == KeywordResult(bucketSize)
            campaignData == Stage2_CampaignData(heap, currentWorkflow)
        IN  /\ pc[i] = "fetchAndOptimizeKeywords"
            /\ heap' = SetResult(heap, currentWorkflow, "keywordOptimization", keywordResult)
            /\ frame' = [frame EXCEPT ![i] = Put(EmptyObject, "keywordResult", keywordResult)]
            /\ calls' = (calls \ {c}) \cup
                    {Call(i, "generateAdCopy",
                          [campaignData |-> campaignData,
                           keywords |-> Stage2_AdCopyKeywords(keywordResult)])}
            /\ pc' = [pc EXCEPT ![i] = "generateAdCopy"]
            /\ UNCHANGED <<status, currentWorkflow, workflowHistory, bucketSize, settled>>
            /\ UNCHANGED <<monitoringVars, callerVars, now, agentVars>>

\* fetchAndOptimizeKeywords returned its keyword structure:
\* stage 2 goes on to the await of generateAdCopy.
fetchAndOptimizeKeywords_returns(i) ==
    \E c \in PendingCall(i, "fetchAndOptimizeKeywords") :
        LET keywordResult == KeywordResult(bucketSize)
            campaignData == Stage2_CampaignData(heap, currentWorkflow)
        IN  /\ pc[i] = "fetchAndOptimizeKeywords"
            /\ frame' = [frame EXCEPT ![i] = Put(EmptyObject, "keywordResult", keywordResult)]
            /\ calls' = (calls \ {c}) \cup
                    {Call(i, "generateAdCopy",
                          [campaignData |-> campaignData,
                           keywords |-> Stage2_AdCopyKeywords(keywordResult)])}
            /\ pc' = [pc EXCEPT ![i] = "generateAdCopy"]
            /\ UNCHANGED <<status, currentWorkflow, workflowHistory, heap, bucketSize, settled>>
            /\ UNCHANGED <<monitoringVars, callerVars, now, agentVars>>

\* generateAdCopy returned: stage 2 records its results and outcome, stage 3
\* starts and runs to the await of monitorCampaign.
generateAdCopy_returns(i) ==
    \E c \in PendingCall(i, "generateAdCopy") :
        LET h2 == Stage2_Completed(heap, currentWorkflow, frame[i].keywordResult, AdCopyResult)
            campaignId == Stage3_CampaignId(h2, currentWorkflow)
        IN  /\ pc[i] = "generateAdCopy"
            /\ heap' = h2
            /\ frame' = [frame EXCEPT ![i] = Put(EmptyObject, "campaignId", campaignId)]
            /\ calls' = (calls \ {c}) \cup
                    {Call(i, "monitorCampaign", [campaignId |-> campaignId])}
            /\ pc' = [pc EXCEPT ![i] = "monitorCampaign"]
            /\ UNCHANGED <<status, currentWorkflow, workflowHistory, bucketSize, settled>>
            /\ UNCHANGED <<monitoringVars, callerVars, now, agentVars>>

\* monitorCampaign returned: stage 3 goes on to the await of adjustBids.
monitorCampaign_returns(i) ==
    \E c \in PendingCall(i, "monitorCampaign") :
        LET performanceResult == PerformanceResult(c.args.campaignId)
        IN  /\ pc[i] = "monitorCampaign"
            /\ frame' = [frame EXCEPT ![i] = Put(@, "performanceResult", performanceResult)]
            /\ calls' = (calls \ {c}) \cup
                    {Call(i, "adjustBids",
                          [campaignId |-> frame[i].campaignId,
                           metrics |-> performanceResult.metrics,
                           keywords |-> Stage3_BidKeywords(heap, currentWorkflow)])}
            /\ pc' = [pc EXCEPT ![i] = "adjustBids"]
            /\ UNCHANGED <<status, currentWorkflow, workflowHistory, heap, bucketSize, settled>>
            /\ UNCHANGED <<monitoringVars, callerVars, now, agentVars>>

\* adjustBids returned: stage 3 records its results and outcome, stage 4
\* starts and runs to the await of generateReport.
adjustBids_returns(i) ==
    \E c \in PendingCall(i, "adjustBids") :
        LET h3 == Stage3_Completed(heap, currentWorkflow, frame[i].performanceResult,
                                   BidOptimizationResult(c.args.keywords))
            campaignData == Stage4_CampaignData(h3, currentWorkflow)
            performanceData == Stage4_PerformanceData(h3, currentWorkflow)
        IN  /\ pc[i] = "adjustBids"
            /\ heap' = h3
            /\ frame' = [frame EXCEPT ![i] = EmptyObject]
            /\ calls' = (calls \ {c}) \cup
                    {Call(i, "generateReport",
                          [campaignData |-> campaignData,
                           performanceData |-> performanceData])}
            /\ pc' = [pc EXCEPT ![i] = "generateReport"]
            /\ UNCHANGED <<status, currentWorkflow, workflowHistory, bucketSize, settled>>
            /\ UNCHANGED <<monitoringVars, callerVars, now, agentVars>>

\* generateReport returned: stage 4 records its outcome and executeWorkflow
\* completes: it finalises currentWorkflow, pushes it to the history and
\* returns it.
generateReport_returns(i) ==
    \E c \in PendingCall(i, "generateReport") :
        LET h4 == Stage4_Completed(heap, currentWorkflow,
                                   ReportResult(c.args.campaignData, c.args.performanceData))
            h5 == WorkflowCompleted(h4, currentWorkflow)
        IN  /\ pc[i] = "generateReport"
            /\ heap' = h5
            /\ workflowHistory' = Append(workflowHistory, currentWorkflow)
            /\ status' = "completed"
            /\ calls' = calls \ {c}
            /\ pc' = [pc EXCEPT ![i] = "resolved"]
            /\ settled' = [settled EXCEPT ![i] = Resolved(currentWorkflow, h5[currentWorkflow])]
            /\ UNCHANGED <<currentWorkflow, frame, bucketSize>>
            /\ UNCHANGED <<monitoringVars, callerVars, now, agentVars>>

\* Faulty variant: the catch block of executeWorkflow also pushes the failed
\* record to the history.
agentCall_throws_recorded(i) ==
    \E c \in {d \in calls : d.inv = i} :
        LET message == ErrorMessage(c.op)
            h1 == StageFailed(heap, currentWorkflow, StageOf(c.op), message)
        IN  /\ pc[i] = c.op
            /\ heap' = WorkflowFailed(h1, currentWorkflow, message)
            /\ workflowHistory' = Append(workflowHistory, currentWorkflow)
            /\ status' = "error"
            /\ calls' = calls \ {c}
            /\ frame' = [frame EXCEPT ![i] = EmptyObject]
            /\ pc' = [pc EXCEPT ![i] = "rejected"]
            /\ settled' = [settled EXCEPT ![i] = Rejected(message)]
            /\ UNCHANGED <<currentWorkflow, bucketSize>>
            /\ UNCHANGED <<monitoringVars, callerVars, now, agentVars>>

\* Faulty variant: a timeout fails the invocation while its agent call is
\* still in flight.
agentCall_throws_onTimeout(i) ==
    \E c \in {d \in calls : d.inv = i} :
        LET message == ErrorMessage(c.op)
            h1 == StageFailed(heap, currentWorkflow, StageOf(c.op), message)
        IN  /\ pc[i] = c.op
            /\ heap' = WorkflowFailed(h1, currentWorkflow, message)
            /\ status' = "error"
            /\ frame' = [frame EXCEPT ![i] = EmptyObject]
            /\ pc' = [pc EXCEPT ![i] = "rejected"]
            /\ settled' = [settled EXCEPT ![i] = Rejected(message)]
            /\ UNCHANGED <<currentWorkflow, workflowHistory, calls, bucketSize>>
            /\ UNCHANGED <<monitoringVars, callerVars, now, agentVars>>

\* Faulty variant: the catch block of a stage may push the failed outcome
\* and try the stage's agent call again.
agentCall_throws_retried(i) ==
    \E c \in {d \in calls : d.inv = i} :
        LET message == ErrorMessage(c.op)
            h1 == StageFailed(heap, currentWorkflow, StageOf(c.op), message)
        IN  /\ pc[i] = c.op
            /\ \/ /\ heap' = h1
                  /\ UNCHANGED <<status, calls, frame, pc, settled>>
               \/ /\ heap' = WorkflowFailed(h1, currentWorkflow, message)
                  /\ status' = "error"
                  /\ calls' = calls \ {c}
                  /\ frame' = [frame EXCEPT ![i] = EmptyObject]
                  /\ pc' = [pc EXCEPT ![i] = "rejected"]
                  /\ settled' = [settled EXCEPT ![i] = Rejected(message)]
            /\ Len(heap[currentWorkflow].stages) < 6
            /\ UNCHANGED <<currentWorkflow, workflowHistory, bucketSize>>
            /\ UNCHANGED <<monitoringVars, callerVars, now, agentVars>>

\* The agent call an invocation awaits throws: the catch block of its stage
\* pushes the failed outcome and re-throws, the catch block of
\* executeWorkflow marks currentWorkflow failed and re-throws to the caller.
agentCall_throws(i) ==
    \E c \in {d \in calls : d.inv = i} :
        LET message == ErrorMessage(c.op)
            h1 == StageFailed(heap, currentWorkflow, StageOf(c.op), message)
        IN  /\ pc[i] = c.op
            /\ heap' = WorkflowFailed(h1, currentWorkflow, message)
            /\ status' = "error"
            /\ calls' = calls \ {c}
            /\ frame' = [frame EXCEPT ![i] = EmptyObject]
            /\ pc' = [pc EXCEPT ![i] = "rejected"]
            /\ settled' = [settled EXCEPT ![i] = Rejected(message)]
            /\ UNCHANGED <<currentWorkflow, workflowHistory, bucketSize>>
            /\ UNCHANGED <<monitoringVars, callerVars, now, agentVars>>

Next ==
    \E i \in Invocations :
        \/ executeWorkflow(i)
        \/ setupCampaign_returns(i)
        \/ fetchAndOptimizeKeywords_returns(i)
        \/ generateAdCopy_returns(i)
        \/ monitorCampaign_returns(i)
        \/ adjustBids_returns(i)
        \/ generateReport_returns(i)
        \/ agentCall_throws(i)

Spec == Init /\ [][Next]_vars

\* The invocations the callers make when each of them calls executeWorkflow
\* once.
OneEach == 1..Cardinality(Callers)

\* An agent call in flight returns or throws.
AgentCallSettles ==
    \E i \in OneEach :
        \/ setupCampaign_returns(i)
        \/ fetchAndOptimizeKeywords_returns(i)
        \/ generateAdCopy_returns(i)
        \/ monitorCampaign_returns(i)
        \/ adjustBids_returns(i)
        \/ generateReport_returns(i)
        \/ agentCall_throws(i)

\* The workflow engine, each caller making one invocation, with agents that
\* do not hang: as long as agent calls are in flight, one of them returns or
\* throws in the end.
NextSettling ==
    \/ \E i \in OneEach : executeWorkflow(i)
    \/ AgentCallSettles

SpecSettling == Init /\ [][NextSettling]_vars /\ WF_vars(AgentCallSettles)

\* ------------------------------------------------------ history queries
\* The record an invocation created: invocations are numbered in the order
\* they are made and each pushes one new object on the heap.
RecordOf(i) == i

\* workflowHistory.filter(w => w.status === s).length
CountStatus(s) ==
    Cardinality({j \in 1..Len(workflowHistory) : heap[workflowHistory[j]].status = s})

\* The records workflowHistory refers to, in its order.
HistoryRecords == [j \in 1..Len(workflowHistory) |-> heap[workflowHistory[j]]]

calculateAverageDuration == AverageDuration(HistoryRecords)

getWorkflowSummary ==
    [totalWorkflows |-> Len(workflowHistory),
     successfulWorkflows |-> CountStatus("completed"),
     failedWorkflows |-> CountStatus("failed"),
     averageDuration |-> calculateAverageDuration,
     lastWorkflow |-> IF Len(workflowHistory) > 0
                      THEN workflowHistory[Len(workflowHistory)] ELSE 0]

\* The header line of the flat table.
CSVHeader ==
    "Workflow ID,Type,Status,Start Time,End Time,Duration,Stages Completed\n"

\* The line convertWorkflowsToCSV adds for one workflow.
CSVRow(workflow) ==
    workflow.id \o "," \o workflow.type \o "," \o workflow.status \o ","
    \o workflow.startTime \o ","
    \o OrNotAvailable(workflow.endTime) \o ","
    \o OrNotAvailable(workflow.duration) \o ","
    \o String(Len(workflow.stages)) \o "\n"

\* Faulty variant: failed workflows are left out of the table.
RECURSIVE convertWorkflowsToCSV_completedOnly(_)
convertWorkflowsToCSV_completedOnly(workflows) ==
    IF workflows = <<>> THEN CSVHeader
    ELSE convertWorkflowsToCSV_completedOnly(SubSeq(workflows, 1, Len(workflows) - 1))
         \o (IF workflows[Len(workflows)].status = "completed"
             THEN CSVRow(workflows[Len(workflows)]) ELSE "")

\* convertWorkflowsToCSV(workflows): the header, then a line per workflow
RECURSIVE convertWorkflowsToCSV(_)
convertWorkflowsToCSV(workflows) ==
    IF workflows = <<>> THEN CSVHeader
    ELSE convertWorkflowsToCSV(SubSeq(workflows, 1, Len(workflows) - 1))
         \o CSVRow(workflows[Len(workflows)])

\* exportWorkflowData(format): the data object, then the switch on format
exportWorkflowData(format) ==
    LET data == [orchestrator |-> "Google Ads AI Orchestrator",
                 workflows |-> workflowHistory,
                 summary |-> getWorkflowSummary,
                 exportedAt |-> Timestamp]
    IN  CASE format = "json" -> [JSON |-> data]
          [] format = "csv" -> convertWorkflowsToCSV(HistoryRecords)
          [] OTHER -> data

\* The formats a caller may ask for: the two supported ones and another.
Formats == {"json", "csv", "xml"}

\* A caller calls getWorkflowSummary().
getWorkflowSummary_called ==
    /\ process = "running"
    /\ returned' = [query |-> "getWorkflowSummary", value |-> getWorkflowSummary]
    /\ UNCHANGED <<workflowVars, monitoringVars, timing, now, agentVars>>

\* A caller calls exportWorkflowData(format).
exportWorkflowData_called(format) ==
    /\ process = "running"
    /\ returned' = [query |-> "exportWorkflowData " \o format, value |-> exportWorkflowData(format)]
    /\ UNCHANGED <<workflowVars, monitoringVars, timing, now, agentVars>>

\* ------------------------------------------- continuous monitoring loop
\* startContinuousMonitoring arms a setInterval timer and returns its handle.
\* Each firing runs the async callback, a monitoring cycle, which like an
\* invocation of executeWorkflow is suspended at each agent call it awaits
\* (so a later firing may start while an earlier cycle is suspended).

\* The alert lists monitorCampaign may return.
AlertLists == {<<>>, <<"CPA above target">>}

\* The callback's awaits.
CycleOps == {"monitorCampaign", "adjustBids", "generateReport"}

\* Faulty variant: the first record of the history, not the last.
LatestWorkflow_first ==
    IF Len(workflowHistory) = 0 THEN 0 ELSE workflowHistory[1]

\* this.workflowHistory[this.workflowHistory.length - 1], 0 for undefined
LatestWorkflow ==
    IF Len(workflowHistory) = 0 THEN 0 ELSE workflowHistory[Len(workflowHistory)]

\* latestWorkflow.results.campaignSetup?.id is there (ids are truthy)
HasCampaignId(h, w) ==
    Has(h[w].results, "campaignSetup") /\ Has(h[w].results.campaignSetup, "id")

\* monitorCampaign's result, with the alerts it found
MonitoringResult(campaignId, alerts) ==
    [campaignId |-> campaignId, metrics |-> "metrics", status |-> "good", alerts |-> alerts]

\* Faulty variant: the optimization runs whatever the alerts.
NeedsOptimization_always(performanceResult) == Has(performanceResult, "alerts")

\* performanceResult.alerts && performanceResult.alerts.length > 0
NeedsOptimization(performanceResult) ==
    Has(performanceResult, "alerts") /\ Len(performanceResult.alerts) > 0

CycleCall(n, op, args) == [cycle |-> n, op |-> op, args |-> args]

PendingCycleCall(n, op) == {c \in cycleCalls : c.cycle = n /\ c.op = op}

\* The cycles suspended at an agent call.
CyclesInProgress == {n \in Cycles : cycle[n].pc \in CycleOps}

startContinuousMonitoring ==
    /\ process = "running"
    /\ timer = "none"
    /\ timer' = "active"
    /\ UNCHANGED <<cycle, cycleCalls, process>>
    /\ UNCHANGED <<workflowVars, callerVars, now, agentVars>>

\* Faulty variant: the callback marks the orchestrator as working.
monitoringCycle_setsStatus(n) ==
    /\ process = "running"
    /\ timer = "active"
    /\ cycle[n].pc = "idle"
    /\ \A m \in Cycles : m < n => cycle[m].pc # "idle"
    /\ cycle' = [cycle EXCEPT ![n] = CycleAt("skipped")]
    /\ status' = "working"
    /\ UNCHANGED <<timer, cycleCalls, process>>
    /\ UNCHANGED <<currentWorkflow, workflowHistory, heap, pc, frame, calls, bucketSize, settled>>
    /\ UNCHANGED <<callerVars, now, agentVars>>

\* The timer fires for the n-th time: the callback runs to the await of
\* monitorCampaign, or returns at once when there is nothing to monitor.
monitoringCycle(n) ==
    /\ process = "running"
    /\ timer = "active"
    /\ cycle[n].pc = "idle"
    /\ \A m \in Cycles : m < n => cycle[m].pc # "idle"
    /\ LET latestWorkflow == LatestWorkflow
       IN  IF latestWorkflow = 0
           THEN /\ cycle' = [cycle EXCEPT ![n] = CycleAt("skipped")]
                /\ cycleCalls' = cycleCalls
           ELSE IF ~HasCampaignId(heap, latestWorkflow)
           THEN /\ cycle' = [cycle EXCEPT ![n] = CycleAt("skipped")]
                /\ cycleCalls' = cycleCalls
           ELSE LET campaignId == heap[latestWorkflow].results.campaignSetup.id
                IN  /\ cycle' = [cycle EXCEPT ![n] =
                                    [pc |-> "monitorCampaign",
                                     latestWorkflow |-> latestWorkflow,
                                     campaignId |-> campaignId,
                                     performanceResult |-> EmptyObject]]
                    /\ cycleCalls' = cycleCalls \cup
                           {CycleCall(n, "monitorCampaign", [campaignId |-> campaignId])}
    /\ UNCHANGED <<timer, process>>
    /\ UNCHANGED <<workflowVars, callerVars, now, agentVars>>

\* monitorCampaign returned to cycle n: with alerts the cycle goes on to the
\* await of adjustBids, without alerts the callback is over.
cycle_monitorCampaign_returns(n) ==
    \E c \in PendingCycleCall(n, "monitorCampaign") : \E alerts \in AlertLists :
        LET performanceResult == MonitoringResult(c.args.campaignId, alerts)
        IN  /\ process = "running"
            /\ cycle[n].pc = "monitorCampaign"
            /\ IF NeedsOptimization(performanceResult)
               THEN /\ cycle' = [cycle EXCEPT ![n].pc = "adjustBids",
                                              ![n].performanceResult = performanceResult]
                    /\ cycleCalls' = (cycleCalls \ {c}) \cup
                           {CycleCall(n, "adjustBids",
                                      [campaignId |-> cycle[n].campaignId,
                                       metrics |-> performanceResult.metrics])}
               ELSE /\ cycle' = [cycle EXCEPT ![n] = CycleOver("done", performanceResult)]
                    /\ cycleCalls' = cycleCalls \ {c}
            /\ UNCHANGED <<timer, process>>
            /\ UNCHANGED <<workflowVars, callerVars, now, agentVars>>

\* adjustBids returned to cycle n: the cycle reads the agent statuses and
\* goes on to the await of generateReport.
cycle_adjustBids_returns(n) ==
    \E c \in PendingCycleCall(n, "adjustBids") :
        /\ process = "running"
        /\ cycle[n].pc = "adjustBids"
        /\ cycle' = [cycle EXCEPT ![n].pc = "generateReport"]
        /\ cycleCalls' = (cycleCalls \ {c}) \cup
               {CycleCall(n, "generateReport",
                          [campaignData |-> Stage4_CampaignData(heap, cycle[n].latestWorkflow),
                           performanceData |-> cycle[n].performanceResult,
                           agentStatuses |-> "agentStatuses"])}
        /\ UNCHANGED <<timer, process>>
        /\ UNCHANGED <<workflowVars, callerVars, now, agentVars>>

\* Faulty variant: the callback stores the report in the results of the
\* current workflow.
cycle_generateReport_returns_storesReport(n) ==
    \E c \in PendingCycleCall(n, "generateReport") :
        /\ process = "running"
        /\ cycle[n].pc = "generateReport"
        /\ cycle' = [cycle EXCEPT ![n] = CycleOver("done", cycle[n].performanceResult)]
        /\ cycleCalls' = cycleCalls \ {c}
        /\ heap' = SetResult(heap, currentWorkflow, "reporting",
                             ReportResult(c.args.campaignData, c.args.performanceData))
        /\ UNCHANGED <<timer, process>>
        /\ UNCHANGED <<status, currentWorkflow, workflowHistory, pc, frame, calls,
                       bucketSize, settled>>
        /\ UNCHANGED <<callerVars, now, agentVars>>

\* generateReport returned to cycle n: the callback is over.
cycle_generateReport_returns(n) ==
    \E c \in PendingCycleCall(n, "generateReport") :
        /\ process = "running"
        /\ cycle[n].pc = "generateReport"
        /\ cycle' = [cycle EXCEPT ![n] = CycleOver("done", cycle[n].performanceResult)]
        /\ cycleCalls' = cycleCalls \ {c}
        /\ UNCHANGED <<timer, process>>
        /\ UNCHANGED <<workflowVars, callerVars, now, agentVars>>

\* Faulty variant: the callback has no try/catch; the rejection of its
\* promise is unhandled, which ends the process.
cycle_agentCall_throws_uncaught(n) ==
    \E c \in {d \in cycleCalls : d.cycle = n} :
        /\ process = "running"
        /\ cycle[n].pc = c.op
        /\ cycle' = [cycle EXCEPT ![n] = CycleOver("unhandled rejection", cycle[n].performanceResult)]
        /\ cycleCalls' = cycleCalls \ {c}
        /\ process' = "exited"
        /\ UNCHANGED timer
        /\ UNCHANGED <<workflowVars, callerVars, now, agentVars>>

\* The agent call cycle n awaits throws: the callback's catch block logs the
\* message and the callback is over.
cycle_agentCall_throws(n) ==
    \E c \in {d \in cycleCalls : d.cycle = n} :
        /\ process = "running"
        /\ cycle[n].pc = c.op
        /\ cycle' = [cycle EXCEPT ![n] = CycleOver("caught", cycle[n].performanceResult)]
        /\ cycleCalls' = cycleCalls \ {c}
        /\ UNCHANGED <<timer, process>>
        /\ UNCHANGED <<workflowVars, callerVars, now, agentVars>>

\* Faulty variant: cancelling the handle drops the callbacks in progress
\* together with their calls in flight.
clearInterval_abortsCycles ==
    /\ process = "running"
    /\ timer = "active"
    /\ timer' = "cancelled"
    /\ cycle' = [n \in Cycles |->
                   IF n \in CyclesInProgress THEN CycleAt("skipped") ELSE cycle[n]]
    /\ cycleCalls' = {c \in cycleCalls : c.cycle \notin CyclesInProgress}
    /\ UNCHANGED process
    /\ UNCHANGED <<workflowVars, callerVars, now, agentVars>>

\* A caller that holds the handle cancels it: clearInterval(handle).
clearInterval ==
    /\ process = "running"
    /\ timer = "active"
    /\ timer' = "cancelled"
    /\ UNCHANGED <<cycle, cycleCalls, process>>
    /\ UNCHANGED <<workflowVars, callerVars, now, agentVars>>

\* main's SIGINT handler, registered once startContinuousMonitoring has
\* returned: clearInterval(monitoringInterval); process.exit(0).  The event
\* loop runs the handler between two callbacks, and the three agent methods
\* a monitoring callback awaits wait for no timer and no I/O (they are
\* settled by promise jobs alone), so a callback the timer has started has
\* run to its end before the handler runs.
SIGINT ==
    /\ process = "running"
    /\ timer # "none"
    /\ CyclesInProgress = {}
    /\ timer' = "cancelled"
    /\ process' = "exited"
    /\ UNCHANGED <<cycle, cycleCalls>>
    /\ UNCHANGED <<workflowVars, callerVars, now, agentVars>>

\* The orchestrator after two overlapping invocations: the second was made
\* while the first awaited generateReport, then generateReport returned to
\* the first and setupCampaign threw in the second.  The one record in the
\* history is the second invocation's, which has no campaignSetup result.
AfterOverlap ==
    /\ bucketSize \in BucketSizes
    /\ LET h1 == Stage1_Completed(<<NewWorkflow>>, 1, CampaignResponse(1))
           h2 == Stage2_Completed(h1, 1, KeywordResult(bucketSize), AdCopyResult)
           h3 == Stage3_Completed(h2, 1, PerformanceResult(Stage3_CampaignId(h2, 1)),
                                  BidOptimizationResult(Stage3_BidKeywords(h2, 1)))
           h4 == Append(h3, NewWorkflow)
           h5 == WorkflowCompleted(
                     Stage4_Completed(h4, 2, ReportResult(Stage4_CampaignData(h3, 1),
                                                          Stage4_PerformanceData(h3, 1))), 2)
           message == ErrorMessage("setupCampaign")
           h6 == WorkflowFailed(StageFailed(h5, 2, 1, message), 2, message)
       IN  /\ heap = h6
           /\ settled = [i \in Invocations |->
                            IF i = 1 THEN Resolved(2, h5[2])
                            ELSE IF i = 2 THEN Rejected(message) ELSE Pending]
    /\ status = "error"
    /\ currentWorkflow = 2
    /\ workflowHistory = <<2>>
    /\ pc = [i \in Invocations |->
                IF i = 1 THEN "resolved" ELSE IF i = 2 THEN "rejected" ELSE "idle"]
    /\ frame = [i \in Invocations |-> EmptyObject]
    /\ calls = {}

\* main awaits its executeWorkflow call before it does anything else: an
\* invocation is made only when none is in progress.
main_executeWorkflow(i) ==
    /\ process = "running"
    /\ InProgress = {}
    /\ executeWorkflow(i)

\* A resumption of main's invocation.
main_resumes(i) ==
    /\ process = "running"
    /\ \/ setupCampaign_returns(i)
       \/ fetchAndOptimizeKeywords_returns(i)
       \/ generateAdCopy_returns(i)
       \/ monitorCampaign_returns(i)
       \/ adjustBids_returns(i)
       \/ generateReport_returns(i)
       \/ agentCall_throws(i)

\* main alone: workflows one after the other, nothing beside them.
NextMain ==
    \/ \E i \in Invocations : main_executeWorkflow(i)
    \/ \E i \in Invocations : main_resumes(i)

SpecMain == Init /\ [][NextMain]_vars

\* The orchestrator in service: one caller at a time runs workflows, the
\* monitoring loop runs beside it.  It starts either freshly constructed or
\* with the history two overlapping invocations have left.
InitMonitor ==
    /\ now = 0
    /\ Constructed \/ AfterOverlap
    /\ MonitoringOff
    /\ AgentsIdle
    /\ CallersIdle

NextMonitor ==
    \/ \E i \in Invocations : main_executeWorkflow(i)
    \/ \E i \in Invocations : main_resumes(i)
    \/ startContinuousMonitoring
    \/ \E n \in Cycles : monitoringCycle(n)
    \/ \E n \in Cycles : cycle_monitorCampaign_returns(n)
    \/ \E n \in Cycles : cycle_adjustBids_returns(n)
    \/ \E n \in Cycles : cycle_generateReport_returns(n)
    \/ \E n \in Cycles : cycle_agentCall_throws(n)
    \/ clearInterval
    \/ SIGINT

SpecMonitor == InitMonitor /\ [][NextMonitor]_vars

\* --------------------------------------------------- the history in use
\* One caller runs workflows and queries the history between their steps,
\* while the clock moves (by a little more than a minute at a time).
tick ==
    /\ process = "running"
    /\ now < MaxTicks * 61500
    /\ now' = now + 61500
    /\ UNCHANGED <<workflowVars, monitoringVars, callerVars, agentVars>>

InitQueries ==
    /\ now = 0
    /\ Constructed \/ AfterOverlap
    /\ bucketSize = MaxBucket
    /\ MonitoringOff
    /\ AgentsIdle
    /\ CallersIdle

NextQueries ==
    \/ \E i \in Invocations : main_executeWorkflow(i)
    \/ \E i \in Invocations : main_resumes(i)
    \/ tick
    \/ getWorkflowSummary_called
    \/ \E format \in Formats : exportWorkflowData_called(format)

SpecQueries == InitQueries /\ [][NextQueries]_vars

\* -------------------------------------------------- the duration functions
\* The elapsed times, in milliseconds, given to calculateDuration: around
\* every whole second up to the bound, and around one hour.
ElapsedInputs ==
    {1000 * s + r : s \in 0..MaxElapsedSeconds, r \in {0, 999}}
        \cup {3599999, 3600000, 3725999}

\* The instants, in milliseconds, at which the measured run starts.
StartInstants == {0, 1500}

\* A caller has the two timestamps of a run.
InitDuration ==
    /\ now = 0
    /\ Constructed
    /\ bucketSize = MaxBucket
    /\ MonitoringOff
    /\ AgentsIdle
    /\ returned = Nothing
    /\ \E start \in StartInstants : \E ms \in ElapsedInputs :
           timing = [pc |-> "start", elapsed |-> ms,
                     startTime |-> toISOString(start), endTime |-> toISOString(start + ms),
                     duration |-> undefined, seconds |-> 0, average |-> undefined]

\* calculateDuration(startTime, endTime) is called.
calculateDuration_called ==
    /\ timing.pc = "start"
    /\ timing' = [timing EXCEPT !.pc = "formatted",
                                !.duration = calculateDuration(timing.startTime, timing.endTime)]
    /\ UNCHANGED <<workflowVars, monitoringVars, returned, now, agentVars>>

\* parseDurationToSeconds(duration) is called with the string just made.
parseDurationToSeconds_called ==
    /\ timing.pc = "formatted"
    /\ timing' = [timing EXCEPT !.pc = "parsed",
                                !.seconds = parseDurationToSeconds(timing.duration)]
    /\ UNCHANGED <<workflowVars, monitoringVars, returned, now, agentVars>>

\* calculateAverageDuration() is called on a history that holds the one
\* completed workflow with that duration.
calculateAverageDuration_called ==
    /\ timing.pc = "parsed"
    /\ timing' = [timing EXCEPT !.pc = "averaged",
                                !.average = AverageDuration(
                                    <<[status |-> "completed", duration |-> timing.duration]>>)]
    /\ UNCHANGED <<workflowVars, monitoringVars, returned, now, agentVars>>

NextDuration ==
    \/ calculateDuration_called
    \/ parseDurationToSeconds_called
    \/ calculateAverageDuration_called

SpecDuration == InitDuration /\ [][NextDuration]_vars

\* ------------------------------------- PerformanceMonitorAgent's own timer
\* The timers of the agent that have been created and not cleared.
LiveTimers == {t \in AgentTimers : monitorAgent.timers[t] = "live"}

\* PerformanceMonitorAgent.startContinuousMonitoring(campaignId): returns
\* undefined when monitoringActive is set, else sets it, creates a timer
\* with setInterval and returns it.
agent_startContinuousMonitoring ==
    /\ IF monitorAgent.monitoringActive
       THEN monitorAgent' = [monitorAgent EXCEPT !.handle = 0]
       ELSE \E t \in AgentTimers :
                /\ monitorAgent.timers[t] = "none"
                /\ \A u \in AgentTimers : u < t => monitorAgent.timers[u] # "none"
                /\ monitorAgent' = [monitorAgent EXCEPT !.monitoringActive = TRUE,
                                                        !.timers[t] = "live",
                                                        !.handle = t]
    /\ UNCHANGED <<logs, bidding, dashboard>>
    /\ UNCHANGED <<workflowVars, monitoringVars, callerVars, now>>

\* PerformanceMonitorAgent.stopContinuousMonitoring()
agent_stopContinuousMonitoring ==
    /\ monitorAgent.monitoringActive
    /\ monitorAgent' = [monitorAgent EXCEPT !.monitoringActive = FALSE]
    /\ UNCHANGED <<logs, bidding, dashboard>>
    /\ UNCHANGED <<workflowVars, monitoringVars, callerVars, now>>

\* Timer t of the agent fires: the callback clears its own timer when
\* monitoringActive is not set, and else calls monitorCampaign (which
\* waits for no timer and no I/O, so the callback is over in the same turn).
agent_timerFires(t) ==
    /\ monitorAgent.timers[t] = "live"
    /\ IF ~monitorAgent.monitoringActive
       THEN monitorAgent' = [monitorAgent EXCEPT !.timers[t] = "cleared"]
       ELSE /\ monitorAgent.monitored < MaxFirings
            /\ monitorAgent' = [monitorAgent EXCEPT !.monitored = @ + 1]
    /\ UNCHANGED <<logs, bidding, dashboard>>
    /\ UNCHANGED <<workflowVars, monitoringVars, callerVars, now>>

NextAgentTimer ==
    \/ agent_startContinuousMonitoring
    \/ agent_stopContinuousMonitoring
    \/ \E t \in AgentTimers : agent_timerFires(t)

SpecAgentTimer == Init /\ [][NextAgentTimer]_vars

\* -------------------------------------------------------- the bounded logs
\* if (this.performanceHistory.length > 100)
PerformanceHistoryCap == 100
\* if (this.bidHistory.length > 100)
BidHistoryCap == 100
\* if (this.reports.length > 50)
ReportsCap == 50
\* if (this.activityLog.length > 20)
ActivityLogCap == 20

\* s.slice(-n)
SliceLast(s, n) == IF Len(s) > n THEN SubSeq(s, Len(s) - n + 1, Len(s)) ELSE s

\* Faulty variant: the trimmed log keeps its oldest entries.
PushKeepLast_keepsFirst(log, entry, cap) ==
    LET pushed == Append(log, entry)
    IN  IF Len(pushed) > cap THEN SubSeq(pushed, 1, cap) ELSE pushed

\* log.push(entry); if (log.length > cap) log = log.slice(-cap)
PushKeepLast(log, entry, cap) ==
    LET pushed == Append(log, entry)
    IN  IF Len(pushed) > cap THEN SliceLast(pushed, cap) ELSE pushed

\* log.unshift(entry); if (log.length > cap) log = log.slice(0, cap)
UnshiftKeepFirst(log, entry, cap) ==
    LET unshifted == <<entry>> \o log
    IN  IF Len(unshifted) > cap THEN SubSeq(unshifted, 1, cap) ELSE unshifted

\* The first n entries, oldest first, and newest first.
Entries(n) == [j \in 1..n |-> j]

EntriesNewestFirst(n) == [j \in 1..n |-> n - j + 1]

\* A log is followed for MaxRecords additions from where it starts.
CanRecord(n, cap) == n < MaxRecords \/ (cap - 1 <= n /\ n < cap - 1 + MaxRecords)

\* The agents and the dashboard after some use: each log is empty or one
\* entry short of its cap.
InitLogs ==
    /\ now = 0
    /\ Constructed
    /\ MonitoringOff
    /\ CallersIdle
    /\ monitorAgent = MonitorAgentConstructed
    /\ bidding = NoBidding
    /\ dashboard = DashboardConstructed
    /\ \E p \in {0, PerformanceHistoryCap - 1}, b \in {0, BidHistoryCap - 1},
          r \in {0, ReportsCap - 1}, a \in {0, ActivityLogCap - 1} :
          logs = [performanceHistory |-> Entries(p), bidHistory |-> Entries(b),
                  reports |-> Entries(r), activityLog |-> EntriesNewestFirst(a),
                  recorded |-> [performanceHistory |-> p, bidHistory |-> b,
                                reports |-> r, activityLog |-> a]]

\* PerformanceMonitorAgent.recordPerformanceHistory
recordPerformanceHistory ==
    LET n == logs.recorded.performanceHistory
    IN  /\ CanRecord(n, PerformanceHistoryCap)
        /\ logs' = [logs EXCEPT !.performanceHistory =
                                    PushKeepLast(@, n + 1, PerformanceHistoryCap),
                                !.recorded.performanceHistory = n + 1]
        /\ UNCHANGED <<monitorAgent, bidding, dashboard>>
        /\ UNCHANGED <<workflowVars, monitoringVars, callerVars, now>>

\* BidOptimizerAgent.recordBidHistory
recordBidHistory ==
    LET n == logs.recorded.bidHistory
    IN  /\ CanRecord(n, BidHistoryCap)
        /\ logs' = [logs EXCEPT !.bidHistory = PushKeepLast(@, n + 1, BidHistoryCap),
                                !.recorded.bidHistory = n + 1]
        /\ UNCHANGED <<monitorAgent, bidding, dashboard>>
        /\ UNCHANGED <<workflowVars, monitoringVars, callerVars, now>>

\* ReportingAgent.generateReport: this.reports.push(comprehensiveReport);
\* this.cleanupOldReports()
cleanupOldReports ==
    LET n == logs.recorded.reports
    IN  /\ CanRecord(n, ReportsCap)
        /\ logs' = [logs EXCEPT !.reports = PushKeepLast(@, n + 1, ReportsCap),
                                !.recorded.reports = n + 1]
        /\ UNCHANGED <<monitorAgent, bidding, dashboard>>
        /\ UNCHANGED <<workflowVars, monitoringVars, callerVars, now>>

\* GoogleAdsDashboard.addActivity
addActivity ==
    LET n == logs.recorded.activityLog
    IN  /\ CanRecord(n, ActivityLogCap)
        /\ logs' = [logs EXCEPT !.activityLog =
                                    UnshiftKeepFirst(@, n + 1, ActivityLogCap),
                                !.recorded.activityLog = n + 1]
        /\ UNCHANGED <<monitorAgent, bidding, dashboard>>
        /\ UNCHANGED <<workflowVars, monitoringVars, callerVars, now>>

NextLogs ==
    \/ recordPerformanceHistory
    \/ recordBidHistory
    \/ cleanupOldReports
    \/ addActivity

SpecLogs == InitLogs /\ [][NextLogs]_vars

\* ------------------------------------------------- BidOptimizerAgent's bids
\* Bids are held in thousandths of a penny, so that the 10% and 5% boosts of
\* a bid in whole pence are exact; adjustments are held in percent.
Pence == 1000

\* config.kpiThresholds.maxCPC: 2.50
MaxCPC == 250 * Pence

\* if (adjustment.newBid < 0.20) adjustment.newBid = 0.20
MinViableBid == 20 * Pence

Max(a, b) == IF a > b THEN a ELSE b

Abs(a) == IF a < 0 THEN 0 - a ELSE a

\* Math.round(bid * 100) / 100 of a positive bid: to the nearest penny.
RoundToPence(bid) == ((bid + (Pence \div 2)) \div Pence) * Pence

\* The bids a keyword can come with: suggestedBid is
\* Math.min(estimatedCPC * 1.2, maxCPC), here in steps of 0.25.
KeywordBids == {Min(25 * k * Pence, MaxCPC) : k \in 1..MaxBidSteps}

\* getKeywordMetrics: conversions and clicks, and CTR in hundredths of a
\* percent.
KeywordConversions == {0, 1, 4}

KeywordClicks == {10, 50, 105}

KeywordCTRs == {100, 200, 350}

Competitions == {"HIGH", "MEDIUM", "LOW"}

\* The campaign's metrics: CPA in pounds, CTR in hundredths of a percent,
\* ROAS in tenths.
CampaignCPAs == {30, 50, 70}

CampaignCTRs == {100, 300, 450}

CampaignROASs == {15, 25, 35}

\* new Date().getHours() and new Date().getDay(), at the edges of business
\* hours and of the working week.
Hours == {8, 9, 17, 18}

Days == {0, 1, 5, 6}

\* newBid: Math.round(Math.max(0.10, currentBid * (1 + adjustment)) * 100) / 100
AdjustedBid(currentBid, adjustment) ==
    RoundToPence(Max(10 * Pence, (currentBid * (100 + adjustment)) \div 100))

\* The bidAdjustments that calculateBidAdjustments collects from one
\* calculation: the adjustment object, or nothing where the calculation
\* returns null for an adjustment below 5%.
BidAdjustment(type, currentBid, adjustment) ==
    IF Abs(adjustment) < 5
    THEN <<>>
    ELSE <<[type |-> type, currentBid |-> currentBid,
            newBid |-> AdjustedBid(currentBid, adjustment),
            adjustment |-> adjustment, adjustmentPercent |-> adjustment]>>

calculateKeywordBidAdjustment(currentBid, conversions, clicks, CTR, competition) ==
    LET byConversionRate ==
            IF conversions > 0
            THEN IF conversions * 100 > 5 * clicks THEN 15
                 ELSE IF conversions * 100 < clicks THEN 0 - 10 ELSE 0
            ELSE 0
        byCTR == IF CTR > 300 THEN 10 ELSE IF CTR < 150 THEN 0 - 8 ELSE 0
        byCompetition == IF competition = "HIGH" THEN 5
                         ELSE IF competition = "LOW" THEN 0 - 3 ELSE 0
    IN  BidAdjustment("keyword", currentBid, byConversionRate + byCTR + byCompetition)

\* The rules of initializeOptimizationRules on createMetricsFromAnalysis:
\* qualityScore 7 and conversionRate 0.025 trigger none of theirs.
calculateGeneralBidAdjustment(CPA, CTR, ROAS) ==
    LET byCPA == IF CPA < 42 THEN 15 ELSE IF CPA > 60 THEN 0 - 20 ELSE 0
        byCTR == IF CTR > 400 THEN 10 ELSE IF CTR < 200 THEN 0 - 15 ELSE 0
        byROAS == IF ROAS > 30 THEN 12 ELSE IF ROAS < 20 THEN 0 - 18 ELSE 0
        totalAdjustment == Max(0 - 50, Min(50, byCPA + byCTR + byROAS))
    IN  BidAdjustment("campaign", 150 * Pence, totalAdjustment)

\* The cap and the floor, then the business-hours and the weekday boost.
applyOptimizationRules(adjustment, hour, day) ==
    LET capped == IF adjustment.newBid > MaxCPC THEN MaxCPC ELSE adjustment.newBid
        floored == IF capped < MinViableBid THEN MinViableBid ELSE capped
        byHour == IF hour >= 9 /\ hour <= 17 THEN (floored * 11) \div 10 ELSE floored
        byDay == IF day >= 1 /\ day <= 5 THEN (byHour * 21) \div 20 ELSE byHour
    IN  [adjustment EXCEPT !.newBid = byDay]

\* The filter's predicate.
validateBidChanges(adjustment) ==
    /\ ~ (Abs(adjustment.adjustmentPercent) < 5)
    /\ ~ (adjustment.newBid < 10 * Pence \/ adjustment.newBid > 1000 * Pence)
    /\ ~ (Abs(adjustment.adjustment) > 100)

\* What adjustBids returns for the bidAdjustments calculated.
validatedBids(bidAdjustments, hour, day) ==
    LET optimizedBids == [n \in DOMAIN bidAdjustments |->
                             applyOptimizationRules(bidAdjustments[n], hour, day)]
    IN  SelectSeq(optimizedBids, validateBidChanges)

\* this.recordBidHistory(campaignId, validatedBids, performanceMetrics)
adjustBids_recordsBidHistory ==
    logs' = [logs EXCEPT !.bidHistory =
                             PushKeepLast(@, logs.recorded.bidHistory + 1, BidHistoryCap),
                         !.recorded.bidHistory = @ + 1]

\* adjustBids(campaignId, performanceMetrics, [keyword])
adjustBids_keyword ==
    \E currentBid \in KeywordBids, conversions \in KeywordConversions,
       clicks \in KeywordClicks, CTR \in KeywordCTRs, competition \in Competitions,
       hour \in Hours, day \in Days :
        /\ bidding.pc = "none"
        /\ bidding' = [pc |-> "returned",
                       adjustments |->
                           validatedBids(
                               calculateKeywordBidAdjustment(
                                   currentBid, conversions, clicks, CTR, competition),
                               hour, day),
                       hour |-> hour, day |-> day]
        /\ adjustBids_recordsBidHistory
        /\ UNCHANGED <<monitorAgent, dashboard>>
        /\ UNCHANGED <<workflowVars, monitoringVars, callerVars, now>>

\* adjustBids(campaignId, performanceMetrics)
adjustBids_campaign ==
    \E CPA \in CampaignCPAs, CTR \in CampaignCTRs, ROAS \in CampaignROASs,
       hour \in Hours, day \in Days :
        /\ bidding.pc = "none"
        /\ bidding' = [pc |-> "returned",
                       adjustments |->
                           validatedBids(calculateGeneralBidAdjustment(CPA, CTR, ROAS),
                                         hour, day),
                       hour |-> hour, day |-> day]
        /\ adjustBids_recordsBidHistory
        /\ UNCHANGED <<monitorAgent, dashboard>>
        /\ UNCHANGED <<workflowVars, monitoringVars, callerVars, now>>

NextBids ==
    \/ adjustBids_keyword
    \/ adjustBids_campaign

SpecBids == Init /\ [][NextBids]_vars

\* ------------------------------------------------------------ the dashboard
\* this.addActivity(title, description)
Activity(log) ==
    [log EXCEPT !.activityLog = UnshiftKeepFirst(@, log.recorded.activityLog + 1,
                                                 ActivityLogCap),
                !.recorded.activityLog = @ + 1]

\* How a call of fetchDashboardData ends for its caller: "succeeded" after
\* updateDashboard, "failed" after its own catch has shown the error, and
\* "threw" where an exception leaves it.
FetchOutcomes == {"succeeded", "failed", "threw"}

\* The activities a settled fetch has added: 'Data Updated' by
\* updateDashboard or 'System Error' by showError, none where it threw.
AfterFetch(log, outcome) == IF outcome = "threw" THEN log ELSE Activity(log)

Fetching == {r \in Refreshes : dashboard.runs[r] = "fetching"}

\* refreshData up to its await: the guard, isLoading = true, the fetch.
refreshData(r) ==
    /\ dashboard.runs[r] = "idle"
    /\ dashboard' =
           IF dashboard.isLoading
           THEN [dashboard EXCEPT !.runs[r] = "skipped"]
           ELSE [dashboard EXCEPT !.isLoading = TRUE, !.runs[r] = "fetching"]
    /\ UNCHANGED <<monitorAgent, logs, bidding>>
    /\ UNCHANGED <<workflowVars, monitoringVars, callerVars, now>>

\* Faulty variant: isLoading is reset on the success path only, not in a
\* finally block.
refreshData_resumes_withoutFinally(r) ==
    /\ dashboard.runs[r] = "fetching"
    /\ \E outcome \in FetchOutcomes :
           /\ dashboard' = [dashboard EXCEPT
                                !.runs[r] = outcome,
                                !.isLoading = IF outcome = "threw" THEN @ ELSE FALSE]
           /\ logs' = Activity(AfterFetch(logs, outcome))
    /\ UNCHANGED <<monitorAgent, bidding>>
    /\ UNCHANGED <<workflowVars, monitoringVars, callerVars, now>>

\* refreshData from its await on: 'Data Refresh', or 'Refresh Error' and
\* showError's 'System Error' in the catch block, then the finally block.
refreshData_resumes(r) ==
    /\ dashboard.runs[r] = "fetching"
    /\ \E outcome \in FetchOutcomes :
           /\ dashboard' = [dashboard EXCEPT !.runs[r] = outcome, !.isLoading = FALSE]
           /\ logs' = IF outcome = "threw"
                      THEN Activity(Activity(logs))
                      ELSE Activity(AfterFetch(logs, outcome))
    /\ UNCHANGED <<monitorAgent, bidding>>
    /\ UNCHANGED <<workflowVars, monitoringVars, callerVars, now>>

\* loadInitialData from its await on: 'System Initialized', or 'System
\* Error' in the catch block.
loadInitialData_resumes ==
    /\ dashboard.initialLoad = "fetching"
    /\ \E outcome \in FetchOutcomes :
           /\ dashboard' = [dashboard EXCEPT !.initialLoad = outcome]
           /\ logs' = Activity(AfterFetch(logs, outcome))
    /\ UNCHANGED <<monitorAgent, bidding>>
    /\ UNCHANGED <<workflowVars, monitoringVars, callerVars, now>>

\* The callback of startAutoRefresh's setInterval.
autoRefresh_fires ==
    /\ dashboard.isLoading \/ dashboard.autoStarted < MaxAutoFetches
    /\ dashboard' =
           IF ~ dashboard.isLoading
           THEN [dashboard EXCEPT !.autoFetches = @ + 1, !.autoStarted = @ + 1,
                                  !.lastTick = "fetched"]
           ELSE [dashboard EXCEPT !.lastTick = "skipped"]
    /\ UNCHANGED <<monitorAgent, logs, bidding>>
    /\ UNCHANGED <<workflowVars, monitoringVars, callerVars, now>>

\* A fetch started by the timer settles; nobody awaits it.
autoRefresh_fetchSettles ==
    /\ dashboard.autoFetches > 0
    /\ \E outcome \in FetchOutcomes :
           /\ dashboard' = [dashboard EXCEPT !.autoFetches = @ - 1]
           /\ logs' = AfterFetch(logs, outcome)
    /\ UNCHANGED <<monitorAgent, bidding>>
    /\ UNCHANGED <<workflowVars, monitoringVars, callerVars, now>>

NextDashboard ==
    \/ \E r \in Refreshes : refreshData(r)
    \/ \E r \in Refreshes : refreshData_resumes(r)
    \/ loadInitialData_resumes
    \/ autoRefresh_fires
    \/ autoRefresh_fetchSettles

SpecDashboard == Init /\ [][NextDashboard]_vars

\* ---------------------------------------------------------------- claims
\* In a step, invocation i is resumed by a throwing agent call.
Throws(i) == pc[i] \in AgentOps /\ pc'[i] = "rejected"

\* In a step, invocation i resolves.
Resolves(i) == pc[i] = "generateReport" /\ pc'[i] = "resolved"

\* The first n items of a sequence, in their order.
IsPrefixOfLength(arg, bucket, n) ==
    /\ Len(arg) = n
    /\ \A j \in 1..n : arg[j] = bucket[j]

\* C1: the record a resolved invocation returns has exactly the four stage
\* outcomes 1, 2, 3, 4, in that order, each completed.
C1_ReturnedRecordHasFourStages ==
    \A i \in Invocations :
        settled[i].kind = "resolved" =>
            /\ Len(settled[i].record.stages) = 4
            /\ \A k \in 1..4 :
                  /\ settled[i].record.stages[k].stage = k
                  /\ settled[i].record.stages[k].status = "completed"

\* C2: when the agent call an invocation awaits in stage k throws e, the
\* step appends the outcome (k, failed, e.message) to the current record,
\* marks that record failed with e.message and an endTime, and the
\* invocation rejects with e.
C2_ThrowIsRecordedAndRethrown ==
    [][\A i \in Invocations : \A c \in calls :
          (c.inv = i /\ Throws(i)) =>
              /\ heap'[currentWorkflow].stages =
                     Append(heap[currentWorkflow].stages,
                            [stage |-> StageOf(c.op), status |-> "failed",
                             error |-> ErrorMessage(c.op)])
              /\ heap'[currentWorkflow].status = "failed"
              /\ heap'[currentWorkflow].error = ErrorMessage(c.op)
              /\ heap'[currentWorkflow].endTime # undefined
              /\ settled'[i].kind = "rejected"
              /\ settled'[i].error = ErrorMessage(c.op)]_vars

\* C2 witness: an invocation rejected with the bid optimizer's error, which
\* is the error of the current record, whose last outcome is stage 3 failed.
C2_Witness ==
    \E i \in Invocations :
        /\ settled[i].kind = "rejected"
        /\ settled[i].error = ErrorMessage("adjustBids")
        /\ heap[currentWorkflow].error = ErrorMessage("adjustBids")
        /\ heap[currentWorkflow].stages[Len(heap[currentWorkflow].stages)].stage = 3

\* C3: an invocation never has two agent calls in flight, and a call of
\* stage N+1 is issued only by the run of code that has just appended the
\* completed outcome of stage N.
C3_StagesRunSequentially ==
    [][/\ \A i \in Invocations : Cardinality({c \in calls' : c.inv = i}) <= 1
       /\ \A c \in calls' \ calls :
             (pc[c.inv] \in AgentOps /\ StageOf(c.op) # StageOf(pc[c.inv])) =>
                 /\ StageOf(c.op) = StageOf(pc[c.inv]) + 1
                 /\ heap'[currentWorkflow'].stages =
                        Append(heap[currentWorkflow].stages,
                               CompletedOutcome(StageOf(pc[c.inv])))]_vars

\* C3 witness: a stage-4 call in flight while another invocation is also
\* suspended at a call of its own.
C3_Witness ==
    \E c \in calls : \E d \in calls :
        /\ c.op = "generateReport"
        /\ d.inv # c.inv
        /\ heap[currentWorkflow].stages # <<>>
        /\ heap[currentWorkflow].stages[Len(heap[currentWorkflow].stages)].stage = 3

\* C4: the record an invocation created is completed if the invocation
\* resolved and failed if it rejected.
C4_OwnRecordTerminal ==
    \A i \in Invocations :
        /\ settled[i].kind = "resolved" => heap[RecordOf(i)].status = "completed"
        /\ settled[i].kind = "rejected" => heap[RecordOf(i)].status = "failed"

\* C5: a record that has a terminal status is never changed again.
C5_TerminalRecordImmutable ==
    [][\A r \in 1..Len(heap) :
          heap[r].status \in {"completed", "failed"} => heap'[r] = heap[r]]_vars

\* C6: workflowHistory changes only in the step in which an invocation
\* resolves, by the push of one record; the step in which an invocation
\* rejects, and every other step, leaves it unchanged.
C6_OnlyResolvedInvocationsAppend ==
    [][/\ workflowHistory' # workflowHistory =>
             \E i \in Invocations :
                 /\ Resolves(i)
                 /\ workflowHistory' = Append(workflowHistory, currentWorkflow)
       /\ \A i \in Invocations : Throws(i) => workflowHistory' = workflowHistory]_vars

\* C6 witness: one invocation has resolved and one has rejected, and the
\* history holds one record.
C6_Witness ==
    /\ \E i \in Invocations : settled[i].kind = "rejected"
    /\ \E i \in Invocations : settled[i].kind = "resolved"
    /\ Len(workflowHistory) = 1

\* C7: every record in workflowHistory is completed: the summary counts no
\* failed workflow and as many successful ones as there are records.
C7_HistoryHoldsOnlyCompleted ==
    /\ \A j \in 1..Len(workflowHistory) : heap[workflowHistory[j]].status = "completed"
    /\ getWorkflowSummary.failedWorkflows = 0
    /\ getWorkflowSummary.successfulWorkflows = getWorkflowSummary.totalWorkflows

\* C8: the ad-copy agent is called with the first min(K, 10) keywords of the
\* exact-match bucket (size K) the keyword agent returned, in their order.
C8_AdCopyGetsFirstTen ==
    \A c \in calls :
        c.op = "generateAdCopy" =>
            LET bucket == frame[c.inv].keywordResult.keywords.exact
            IN  IsPrefixOfLength(c.args.keywords, bucket, Min(Len(bucket), 10))

\* C8 witness: an ad-copy call in flight with 10 keywords of a larger bucket.
C8_Witness ==
    \E c \in calls :
        /\ c.op = "generateAdCopy"
        /\ Len(frame[c.inv].keywordResult.keywords.exact) > 10
        /\ Len(c.args.keywords) = 10

\* C9: the bid optimizer is called with the first min(K, 5) keywords of the
\* exact-match bucket (size K) stored under results.keywordOptimization of
\* the current record, in their order.
C9_BidOptimizerGetsFirstFive ==
    [][\A c \in calls' \ calls :
          (c.op = "adjustBids" /\ Has(heap[currentWorkflow].results, "keywordOptimization")) =>
              LET bucket == heap[currentWorkflow].results.keywordOptimization.keywords.exact
              IN  IsPrefixOfLength(c.args.keywords, bucket, Min(Len(bucket), 5))]_vars

\* C9 witness: a bid-optimizer call in flight with 5 keywords while the
\* current record stores a bucket of more than 10.
C9_Witness ==
    \E c \in calls :
        /\ c.op = "adjustBids"
        /\ Len(c.args.keywords) = 5
        /\ Has(heap[currentWorkflow].results, "keywordOptimization")
        /\ Len(heap[currentWorkflow].results.keywordOptimization.keywords.exact) > 10

\* C10: with results.campaignSetup absent the ad-copy call gets the empty
\* object and the monitor call gets 'demo_campaign'; with
\* results.keywordOptimization absent the bid-optimizer call gets no
\* keywords; and an invocation rejects only with the error of the agent call
\* it awaited, never because a result was missing.
C10_MissingResultsFallBack ==
    [][/\ \A c \in calls' \ calls :
             /\ (c.op = "generateAdCopy" /\ ~Has(heap[currentWorkflow].results, "campaignSetup"))
                    => c.args.campaignData = EmptyObject
             /\ (c.op = "monitorCampaign" /\ ~Has(heap[currentWorkflow].results, "campaignSetup"))
                    => c.args.campaignId = demo_campaign
             /\ (c.op = "adjustBids" /\ ~Has(heap[currentWorkflow].results, "keywordOptimization"))
                    => c.args.keywords = <<>>
       /\ \A i \in Invocations :
             (pc[i] \in AgentOps /\ pc'[i] # pc[i]) =>
                 \/ \E c \in calls' \ calls : c.inv = i
                 \/ Resolves(i)
                 \/ Throws(i) /\ settled'[i].error = ErrorMessage(pc[i])]_vars

\* C10 witness: a monitor call for 'demo_campaign' in flight, made while the
\* current record has no campaignSetup result.
C10_Witness ==
    \E c \in calls :
        /\ c.op = "monitorCampaign"
        /\ c.args.campaignId = demo_campaign
        /\ ~Has(heap[currentWorkflow].results, "campaignSetup")

\* In a step, the timer fires and the callback of cycle n runs.
Fires(n) == cycle[n].pc = "idle" /\ cycle'[n].pc # "idle"

\* The agent calls cycle n makes in a step.
NewCycleCalls(n) == {c \in cycleCalls' \ cycleCalls : c.cycle = n}

\* How a callback ends.
CycleEnds == {"skipped", "done", "caught", "unhandled rejection"}

\* C11: a cycle that starts when the history is empty, or when its most
\* recent record has no results.campaignSetup.id, returns at once without
\* an agent call and without an error, and makes no call later; any other
\* cycle calls monitorCampaign, and nothing else, with the campaign id of the
\* most recent history record.
C11_CycleMonitorsLatestCampaign ==
    [][\A n \in Cycles :
          /\ Fires(n) =>
                IF workflowHistory = <<>>
                   \/ ~HasCampaignId(heap, workflowHistory[Len(workflowHistory)])
                THEN /\ cycleCalls' = cycleCalls
                     /\ cycle'[n].pc = "skipped"
                ELSE /\ cycle'[n].pc = "monitorCampaign"
                     /\ NewCycleCalls(n) =
                            {CycleCall(n, "monitorCampaign",
                                [campaignId |-> heap[workflowHistory[Len(workflowHistory)]]
                                                    .results.campaignSetup.id])}
          /\ cycle[n].pc = "skipped" => (cycle'[n].pc = "skipped" /\ NewCycleCalls(n) = {})]_vars

\* C11 witness: a cycle has been skipped on a history whose most recent
\* record has no campaignSetup result.
C11_Witness ==
    \E n \in Cycles :
        /\ cycle[n].pc = "skipped"
        /\ workflowHistory # <<>>
        /\ ~HasCampaignId(heap, workflowHistory[Len(workflowHistory)])
        /\ cycleCalls = {}

\* C12: a cycle calls adjustBids only in the step in which monitorCampaign
\* returned it a result with one or more alerts, with the campaign id and the
\* metrics and no keywords; it calls generateReport only in the step in which
\* that adjustBids call returned; and when monitorCampaign returns a result
\* without alerts the cycle is over without either call.
C12_AlertsDriveOptimization ==
    [][\A n \in Cycles :
          /\ \A c \in NewCycleCalls(n) :
                /\ c.op = "adjustBids" =>
                      /\ cycle[n].pc = "monitorCampaign"
                      /\ Len(cycle'[n].performanceResult.alerts) >= 1
                      /\ c.args = [campaignId |-> cycle[n].campaignId,
                                   metrics |-> cycle'[n].performanceResult.metrics]
                /\ c.op = "generateReport" =>
                      /\ cycle[n].pc = "adjustBids"
                      /\ \E d \in cycleCalls \ cycleCalls' : d.cycle = n /\ d.op = "adjustBids"
                      /\ Len(cycle[n].performanceResult.alerts) >= 1
          /\ (cycle[n].pc = "monitorCampaign" /\ cycle'[n].pc \in {"adjustBids", "done"}) =>
                IF Len(cycle'[n].performanceResult.alerts) >= 1
                THEN /\ cycle'[n].pc = "adjustBids"
                     /\ {c.op : c \in NewCycleCalls(n)} = {"adjustBids"}
                ELSE /\ cycle'[n].pc = "done"
                     /\ NewCycleCalls(n) = {}
          /\ cycle[n].pc = "done" => (cycle'[n].pc = "done" /\ NewCycleCalls(n) = {})]_vars

\* C12 witness: one cycle awaits generateReport after alerts, another one is
\* over after a result without alerts.
C12_Witness ==
    /\ \E n \in Cycles :
          /\ cycle[n].pc = "generateReport"
          /\ Len(cycle[n].performanceResult.alerts) >= 1
          /\ \E c \in cycleCalls : c.cycle = n /\ c.op = "generateReport"
    /\ \E m \in Cycles :
          /\ cycle[m].pc = "done"
          /\ Has(cycle[m].performanceResult, "alerts")
          /\ cycle[m].performanceResult.alerts = <<>>

\* C13: the step in which the agent call a cycle awaits throws ends that
\* cycle in its catch block: the process keeps running, the orchestrator
\* (its status included) is unchanged, and the timer is as it was, so that
\* it fires again.
C13_CycleErrorIsCaught ==
    [][\A n \in Cycles :
          (cycle[n].pc \in CycleOps /\ cycle'[n].pc \in CycleEnds \ {"done"}) =>
              /\ cycle'[n].pc = "caught"
              /\ process' = "running"
              /\ status' = status
              /\ UNCHANGED workflowVars
              /\ timer' = timer
              /\ \A m \in Cycles \ {n} : cycle'[m] = cycle[m]]_vars

\* C13 witness: the first cycle has ended in its catch block, the timer is
\* active and the second cycle is running.
C13_Witness ==
    /\ cycle[1].pc = "caught"
    /\ timer = "active"
    /\ process = "running"
    /\ cycle[2].pc \in CycleOps

\* The steps by which cycle n runs on from the agent call it awaits.
CycleRunsOn(n) ==
    \/ cycle_monitorCampaign_returns(n)
    \/ cycle_adjustBids_returns(n)
    \/ cycle_generateReport_returns(n)
    \/ cycle_agentCall_throws(n)

\* C14: once the handle is cancelled it stays cancelled and no cycle starts;
\* the step that cancels it leaves every cycle in progress as it is, with
\* its agent call in flight; and a cycle in progress after the cancellation
\* can always run on from the call it awaits.
C14_CancelStopsOnlyNewCycles ==
    /\ [](timer = "cancelled" => \A n \in CyclesInProgress : ENABLED CycleRunsOn(n))
    /\ [][/\ timer = "cancelled" =>
                /\ timer' = "cancelled"
                /\ \A n \in Cycles : ~Fires(n)
          /\ (timer = "active" /\ timer' = "cancelled") =>
                /\ cycle' = cycle
                /\ cycleCalls' = cycleCalls]_vars

\* C14 witness: the handle is cancelled, one cycle has not started, and
\* another, in progress, has come to its last agent call.
C14_Witness ==
    /\ timer = "cancelled"
    /\ \E n \in Cycles : cycle[n].pc = "idle"
    /\ \E n \in CyclesInProgress : PendingCycleCall(n, "generateReport") # {}

\* s is the beginning of t.
IsPrefix(s, t) == Len(s) <= Len(t) /\ SubSeq(t, 1, Len(s)) = s

\* C15: every step leaves each record's stages and the history as a prefix
\* of what they become, every record's stage ordinals increase strictly
\* along its stages, and the history grows only by the record of the
\* invocation that resolves in the step.
C15_AppendOnlyInOrder ==
    [][/\ IsPrefix(workflowHistory, workflowHistory')
       /\ \A r \in 1..Len(heap) : IsPrefix(heap[r].stages, heap'[r].stages)
       /\ \A r \in 1..Len(heap') : \A j \in 1..(Len(heap'[r].stages) - 1) :
             heap'[r].stages[j].stage < heap'[r].stages[j + 1].stage
       /\ workflowHistory' # workflowHistory =>
             \E i \in Invocations :
                 /\ Resolves(i)
                 /\ workflowHistory' = Append(workflowHistory, RecordOf(i))]_vars

\* C16: the status is idle as long as no invocation has been made and
\* working while main's invocation is in progress; the step in which an
\* invocation resolves sets it to completed, the step in which it rejects
\* to error; and a step of no invocation (of a monitoring cycle, of the
\* timer or its cancellation) leaves it as it is.
C16_StatusFollowsInvocation ==
    /\ []((\A i \in Invocations : pc[i] = "idle") => status = "idle")
    /\ [](InProgress # {} => status = "working")
    /\ [][/\ \A i \in Invocations :
                /\ (Resolves(i) => status' = "completed")
                /\ (Throws(i) => status' = "error")
          /\ (pc' = pc => status' = status)]_vars

\* C16 witness: main's first invocation resolved and its second rejected,
\* the status is error, and a monitoring cycle has run to its end meanwhile.
C16_Witness ==
    /\ workflowHistory = <<1>>
    /\ pc[1] = "resolved"
    /\ pc[2] = "rejected"
    /\ status = "error"
    /\ \E n \in Cycles : cycle[n].pc = "done" /\ Has(cycle[n].performanceResult, "alerts")

\* C17: calculateDuration returns floor(ms/1000) followed by 's' for an
\* elapsed time ms below 60000, and otherwise the minutes followed by 'm',
\* a space and the seconds beyond the minutes followed by 's'; no 'h'.
C17_DurationFormat ==
    timing.pc \in {"formatted", "parsed", "averaged"} =>
        LET ms == timing.elapsed
            seconds == ms \div 1000
            minutes == seconds \div 60
        IN  /\ (ms < 60000 => timing.duration = ToString(seconds) \o "s")
            /\ (ms >= 60000 =>
                  timing.duration = ToString(minutes) \o "m " \o ToString(seconds % 60) \o "s")
            /\ ~Includes(timing.duration, "h")

\* C17 witness: an elapsed time of more than an hour has been formatted in
\* minutes and seconds.
C17_Witness ==
    /\ timing.pc = "formatted"
    /\ timing.elapsed = 3725999
    /\ timing.duration = "62m 5s"

\* C18: the seconds parseDurationToSeconds reads from a string made by
\* calculateDuration are the whole seconds that string was made from, and
\* written out by the minutes/seconds rule of calculateAverageDuration they
\* give the same string again.
C18_DurationRoundTrip ==
    /\ timing.pc \in {"parsed", "averaged"} =>
          /\ timing.seconds = timing.elapsed \div 1000
          /\ FormatAverage(timing.seconds) = timing.duration
    /\ timing.pc = "averaged" => timing.average = timing.duration

\* C18 witness: a string with a minutes and a seconds part has made the
\* round trip.
C18_Witness ==
    /\ timing.pc = "averaged"
    /\ Includes(timing.duration, "m")
    /\ timing.seconds % 60 # 0
    /\ timing.average = timing.duration

\* C19: when no record in the history is completed, getWorkflowSummary
\* returns the average duration 'N/A'; on the empty history it returns 0
\* workflows and no last workflow; and the average is never made from a
\* division by zero.
C19_SummaryWithoutCompleted ==
    /\ CountStatus("completed") = 0 => getWorkflowSummary.averageDuration = "N/A"
    /\ workflowHistory = <<>> =>
          /\ getWorkflowSummary.totalWorkflows = 0
          /\ getWorkflowSummary.lastWorkflow = 0
    /\ ~Includes(getWorkflowSummary.averageDuration, "N") \/
          getWorkflowSummary.averageDuration = "N/A"
    /\ returned.query = "getWorkflowSummary" =>
          /\ (returned.value.totalWorkflows = 0 => returned.value.lastWorkflow = 0)
          /\ (returned.value.successfulWorkflows = 0 =>
                 returned.value.averageDuration = "N/A")

\* C19 witness: getWorkflowSummary has been called after an invocation
\* failed and none completed.
C19_Witness ==
    /\ \E i \in Invocations : pc[i] = "rejected"
    /\ workflowHistory = <<>>
    /\ returned.query = "getWorkflowSummary"
    /\ returned.value.averageDuration = "N/A"
    /\ returned.value.totalWorkflows = 0

\* C20: the csv export is the header line followed by one line per history
\* record, in the order of the history (the line's first field is the
\* record's id, its fourth the start time), whose last field is the number
\* of the record's stage outcomes; and the step that returns an export
\* returns this text and leaves the history and the records as they are.
C20_CSVExport ==
    /\ [](LET lines == Split(exportWorkflowData("csv"), "\n")
              N == Len(workflowHistory)
          IN  /\ Len(lines) = N + 2
              /\ lines[1] = "Workflow ID,Type,Status,Start Time,End Time,Duration,Stages Completed"
              /\ lines[N + 2] = ""
              /\ \A j \in 1..N :
                    LET fields == Split(lines[j + 1], ",")
                        workflow == heap[workflowHistory[j]]
                    IN  /\ Len(fields) = 7
                        /\ fields[1] = workflow.id
                        /\ fields[4] = workflow.startTime
                        /\ fields[7] = ToString(Len(workflow.stages)))
    /\ [][(returned.query # "exportWorkflowData csv" /\
              returned'.query = "exportWorkflowData csv") =>
              /\ UNCHANGED workflowVars
              /\ returned'.value = exportWorkflowData("csv")]_vars

\* C20 witness: the csv export of a history of two workflows that started
\* at different times has been returned: three lines, the rows ending in 4.
C20_Witness ==
    /\ returned.query = "exportWorkflowData csv"
    /\ Len(workflowHistory) = 2
    /\ heap[workflowHistory[1]].startTime # heap[workflowHistory[2]].startTime
    /\ returned.value = exportWorkflowData("csv")
    /\ LET lines == Split(returned.value, "\n")
       IN  /\ Len(lines) = 4
           /\ Split(lines[2], ",")[7] = "4"
           /\ Split(lines[3], ",")[1] = heap[workflowHistory[2]].id

\* How an invocation ends.
Settled == {"resolved", "rejected"}

\* C21: with agents that do not hang, from some time on every invocation
\* made has settled and the status is no longer working; and an
\* invocation that awaits an agent call stays where it is, unsettled, in
\* every step that leaves that call in flight (nothing but the call's
\* return or throw moves it on or fails it).
C21_SettlesIffAgentsSettle ==
    /\ <>[](\A i \in Invocations : pc[i] \notin AgentOps)
    /\ <>[](status # "working")
    /\ [][\A i \in Invocations :
             (pc[i] \in AgentOps /\ PendingCall(i, pc[i]) \subseteq calls') =>
                 /\ pc'[i] = pc[i]
                 /\ settled'[i] = settled[i]
                 /\ {c \in calls' : c.inv = i} = {c \in calls : c.inv = i}]_vars

\* C21 witness: two invocations were made and both have settled, one
\* resolved and one rejected, and the status is no longer working.
C21_Witness ==
    /\ \E i, j \in Invocations : pc[i] = "resolved" /\ pc[j] = "rejected"
    /\ \A i \in Invocations : pc[i] \in Settled \cup {"idle"}
    /\ calls = {}
    /\ status # "working"

\* C22: any two records the orchestrator has created have different ids.
C22_RecordIdsDistinct ==
    \A r1, r2 \in 1..Len(heap) : r1 # r2 => heap[r1].id # heap[r2].id

\* Invocation i leaves a stage in this step: the agent call it awaits
\* returns and the stage has no further call, or the call throws.
LeavesStage(i) ==
    /\ pc[i] \in AgentOps
    /\ pc'[i] # pc[i]
    /\ pc'[i] \in Settled \/ StageOf(pc'[i]) # StageOf(pc[i])

\* C23: an invocation that starts makes its new record the current one,
\* also while another invocation is suspended at an agent call; from then
\* on every step leaves the replaced records as they are and out of the
\* history, and every stage an invocation leaves appends its outcome to
\* the current record, whichever invocation created it; the record of the
\* first invocation has no terminal status and is not in the history as
\* long as that invocation is suspended.
C23_OverlapWritesToLatestRecord ==
    /\ [](pc[1] \in AgentOps =>
             /\ heap[RecordOf(1)].status = undefined
             /\ \A j \in 1..Len(workflowHistory) : workflowHistory[j] # RecordOf(1))
    /\ [][/\ Len(heap') > Len(heap) => currentWorkflow' = Len(heap')
          /\ \A r \in 1..Len(heap) :
                r # currentWorkflow' => heap'[r] = heap[r]
          /\ workflowHistory' # workflowHistory =>
                workflowHistory' = Append(workflowHistory, currentWorkflow)
          /\ \A i \in Invocations :
                LeavesStage(i) =>
                    /\ Len(heap'[currentWorkflow].stages) =
                           Len(heap[currentWorkflow].stages) + 1
                    /\ heap'[currentWorkflow].stages[Len(heap'[currentWorkflow].stages)].stage
                           = StageOf(pc[i])]_vars

\* C23 witness: the second invocation started while the first was
\* suspended and both resolved: the second record holds more than four
\* outcomes, not in the order of their ordinals, and is in the history
\* twice; the first record has no outcome, no terminal status and is not
\* in the history.
C23_Witness ==
    /\ pc[1] = "resolved"
    /\ pc[2] = "resolved"
    /\ Len(heap[2].stages) > 4
    /\ \E j \in 1..(Len(heap[2].stages) - 1) :
          heap[2].stages[j].stage > heap[2].stages[j + 1].stage
    /\ workflowHistory = <<2, 2>>
    /\ heap[1].stages = <<>>
    /\ heap[1].status = undefined

\* C24: a rejected invocation of main has a record of k = 1..4 outcomes, the
\* first k - 1 completed and the last failed, with the ordinals 1..k, one
\* outcome each; k is the stage whose agent call threw; and a rejected
\* invocation stays rejected with no agent call in flight or issued.
C24_FailedStageEndsRecord ==
    /\ [](\A i \in Invocations :
             pc[i] = "rejected" =>
                 LET stages == heap[RecordOf(i)].stages
                     k == Len(stages)
                 IN  /\ k \in 1..4
                     /\ \A j \in 1..k : stages[j].stage = j
                     /\ \A j \in 1..(k - 1) : stages[j].status = "completed"
                     /\ stages[k].status = "failed"
                     /\ {c \in calls : c.inv = i} = {})
    /\ [][\A i \in Invocations :
             /\ Throws(i) => Len(heap'[RecordOf(i)].stages) = StageOf(pc[i])
             /\ pc[i] = "rejected" =>
                   /\ pc'[i] = "rejected"
                   /\ {c \in calls' : c.inv = i} = {}]_vars

\* C24 witness: main's first invocation failed in stage 3, its second in
\* stage 1.
C24_Witness ==
    /\ pc[1] = "rejected"
    /\ pc[2] = "rejected"
    /\ Len(heap[1].stages) = 3
    /\ heap[1].stages[3].status = "failed"
    /\ Len(heap[2].stages) = 1

\* C25: while stage 2 awaits its agents, and after it failed, the results
\* hold neither keywordOptimization nor adCopyGeneration; while stage 3
\* awaits its agents, and after it failed, neither performanceMonitoring nor
\* bidOptimization; and the step in which an agent call throws leaves the
\* results as they were when the stage began.
C25_ResultsOnlyAfterStageSucceeds ==
    /\ [](\A i \in Invocations :
             LET record == heap[RecordOf(i)]
                 at(k) == \/ pc[i] \in AgentOps /\ StageOf(pc[i]) = k
                          \/ pc[i] = "rejected" /\ Len(record.stages) = k
             IN  /\ pc[i] # "idle" /\ at(1) => DOMAIN record.results = {}
                 /\ pc[i] # "idle" /\ at(2) => DOMAIN record.results = {"campaignSetup"}
                 /\ pc[i] # "idle" /\ at(3) =>
                        DOMAIN record.results =
                            {"campaignSetup", "keywordOptimization", "adCopyGeneration"}
                 /\ pc[i] # "idle" /\ at(4) =>
                        DOMAIN record.results =
                            {"campaignSetup", "keywordOptimization", "adCopyGeneration",
                             "performanceMonitoring", "bidOptimization"})
    /\ [][\A i \in Invocations :
             Throws(i) => heap'[RecordOf(i)].results = heap[RecordOf(i)].results]_vars

\* C25 witness: stage 2 failed at the ad-copy call and, in the next
\* invocation, stage 3 at the bid-optimizer call.
C25_Witness ==
    /\ pc[1] = "rejected"
    /\ heap[1].error = ErrorMessage("generateAdCopy")
    /\ DOMAIN heap[1].results = {"campaignSetup"}
    /\ pc[2] = "rejected"
    /\ heap[2].error = ErrorMessage("adjustBids")
    /\ ~Has(heap[2].results, "performanceMonitoring")

\* C26: every step of a monitoring cycle (its start, the return or throw of
\* an agent call it awaits) leaves the current workflow, all records, the
\* history, the status and the invocations as they are; and whatever the
\* cycles do meanwhile, an invocation of main that resolves leaves its
\* record with the four completed outcomes in order, appended once to the
\* history, and one that rejects at stage k leaves it with k outcomes and
\* the history as it was.
C26_CyclesLeaveWorkflowsAlone ==
    [][/\ (cycle' # cycle \/ cycleCalls' # cycleCalls) => UNCHANGED workflowVars
       /\ \A i \in Invocations :
             /\ Resolves(i) =>
                   /\ heap'[RecordOf(i)].stages =
                          [k \in 1..4 |-> CompletedOutcome(k)]
                   /\ workflowHistory' = Append(workflowHistory, RecordOf(i))
             /\ Throws(i) =>
                   /\ heap'[RecordOf(i)].stages =
                          [k \in 1..StageOf(pc[i]) |->
                              IF k < StageOf(pc[i]) THEN CompletedOutcome(k)
                              ELSE FailedOutcome(k, ErrorMessage(pc[i]))]
                   /\ workflowHistory' = workflowHistory]_vars

\* C26 witness: main's second invocation has resolved, and a monitoring
\* cycle that started before it did so, on the first invocation's campaign,
\* awaits its last agent call.
C26_Witness ==
    /\ pc[1] = "resolved"
    /\ pc[2] = "resolved"
    /\ workflowHistory = <<1, 2>>
    /\ Len(heap[2].stages) = 4
    /\ \E n \in Cycles :
          /\ PendingCycleCall(n, "generateReport") # {}
          /\ cycle[n].campaignId = heap[1].results.campaignSetup.id

\* C27: at most one timer of PerformanceMonitorAgent is live at any time,
\* whatever the order of start, stop and timer firings; and
\* startContinuousMonitoring creates no timer while monitoringActive is set.
C27_AtMostOneAgentTimer ==
    /\ [](Cardinality(LiveTimers) <= 1)
    /\ [][monitorAgent.monitoringActive =>
             \A t \in AgentTimers :
                 monitorAgent.timers[t] = "none" => monitorAgent'.timers[t] = "none"]_vars

\* A log that grows at its end holds the last min(n, cap) of the n entries
\* added to it, oldest first.
HoldsMostRecent(log, n, cap) ==
    /\ Len(log) <= cap
    /\ Len(log) = Min(n, cap)
    /\ \A j \in 1..Len(log) : log[j] = n - Len(log) + j

\* C28: performanceHistory never has more than 100 entries, bidHistory 100,
\* reports 50 and activityLog 20, and each holds the entries added last, in
\* the order they were added (activityLog: newest first).
C28_LogsStayWithinCaps ==
    /\ HoldsMostRecent(logs.performanceHistory, logs.recorded.performanceHistory,
                       PerformanceHistoryCap)
    /\ HoldsMostRecent(logs.bidHistory, logs.recorded.bidHistory, BidHistoryCap)
    /\ HoldsMostRecent(logs.reports, logs.recorded.reports, ReportsCap)
    /\ LET log == logs.activityLog
           n == logs.recorded.activityLog
       IN  /\ Len(log) <= ActivityLogCap
           /\ Len(log) = Min(n, ActivityLogCap)
           /\ \A j \in 1..Len(log) : log[j] = n - j + 1

\* C28 witness: every log has been filled beyond its cap and trimmed.
C28_Witness ==
    /\ logs.recorded.performanceHistory = PerformanceHistoryCap + 2
    /\ Len(logs.performanceHistory) = PerformanceHistoryCap
    /\ logs.performanceHistory[1] = 3
    /\ logs.recorded.bidHistory = BidHistoryCap + 1
    /\ Len(logs.bidHistory) = BidHistoryCap
    /\ logs.bidHistory[1] = 2
    /\ logs.recorded.reports = ReportsCap + 2
    /\ Len(logs.reports) = ReportsCap
    /\ logs.reports[1] = 3
    /\ logs.recorded.activityLog = ActivityLogCap + 2
    /\ Len(logs.activityLog) = ActivityLogCap
    /\ logs.activityLog[1] = ActivityLogCap + 2
    /\ logs.activityLog[ActivityLogCap] = 3

\* C29: every bid adjustment returned by adjustBids has a newBid of at least
\* the minimum viable bid 0.20 and at most maxCPC 2.50, at any hour and on
\* any weekday.
C29_BidsWithinLimits ==
    \A n \in DOMAIN bidding.adjustments :
        /\ bidding.adjustments[n].newBid >= MinViableBid
        /\ bidding.adjustments[n].newBid <= MaxCPC

\* C30: at most one refreshData run is fetching at a time; a refreshData
\* call made while isLoading is set returns without fetching; a firing of
\* the auto-refresh timer while isLoading is set starts no fetch; and when a
\* run finishes, however its fetch ended, isLoading is false.
C30_OneRefreshAtATime ==
    /\ [](Cardinality(Fetching) <= 1)
    /\ [](dashboard.isLoading <=> Fetching # {})
    /\ [][/\ dashboard.isLoading =>
                 /\ dashboard'.autoStarted = dashboard.autoStarted
                 /\ \A r \in Refreshes :
                        dashboard.runs[r] = "idle" =>
                            dashboard'.runs[r] \in {"idle", "skipped"}
          /\ \A r \in Refreshes :
                 (dashboard.runs[r] = "fetching" /\ dashboard'.runs[r] # "fetching") =>
                     (/\ dashboard'.runs[r] \in FetchOutcomes
                      /\ ~ dashboard'.isLoading)]_vars

\* C30 witness: a run was refused while another was fetching, a firing of
\* the timer was skipped, one run ended in an exception and a later one
\* succeeded, and isLoading is false.
C30_Witness ==
    /\ ~ dashboard.isLoading
    /\ dashboard.lastTick = "skipped"
    /\ \E r1, r2, r3 \in Refreshes :
           /\ dashboard.runs[r1] = "threw"
           /\ dashboard.runs[r2] = "skipped"
           /\ dashboard.runs[r3] = "succeeded"

====
